---- MODULE Spec2Model ----
(***************************************************************************)
(* Cluster lifecycle controller of sky/core.py (start, stop, down,         *)
(* autostop, cancel) over the cluster table of global_user_state, together *)
(* with the collaborators core.py calls (backend.provision,                *)
(* backend.teardown, backend.set_autostop, backend.cancel_jobs,            *)
(* backend_utils.check_cluster_available) and the idle monitor that runs   *)
(* on every cluster; start(), autostop(), cancel(), queue(),               *)
(* job_status(), spot_queue() and spot_cancel() take one step per blocking *)
(* call, with the cluster side stepping in between (stop() and down() make *)
(* one such call each); the failover loop                                  *)
(* over the region groups of sky/clouds/aws.py; the managed spot job       *)
(* controller behind spot_queue and spot_cancel; the interleaving of       *)
(* concurrent calls on one cluster name; the idle monitor as a poller; the *)
(* functions of the AWS cloud (egress cost, feasible resources, region     *)
(* loop, image resolution, credential check); and the parallel fetch of    *)
(* the instance table by data_fetchers/fetch_aws.py.                       *)
(***************************************************************************)
EXTENDS Integers, Sequences, FiniteSets, TLC

VARIABLES
    clusters,       \* global_user_state: cluster name -> cluster record
    sinceSet,       \* history: minutes since an autostop was newly set, per name
    firstLaunched,  \* history: launched resources first recorded, per name
    last,           \* history: the call made last, its arguments and its result
    inflight,       \* the calls in flight between two waits: what each has read, where it is
    search,         \* the failover loop of one provisioning call
    spot_jobs,      \* the managed job table of the spot controller
    job_last,       \* history: the last step on the managed job table
    procs,          \* concurrent calls in flight: what each has read, where it is
    monitor,        \* the idle monitor of one cluster and the store it polls
    aws,            \* a call into sky/clouds/aws.py: its arguments and its result
    fetch           \* a run of the catalog data fetcher over the regions

lifecycleVars == <<clusters, sinceSet, firstLaunched, last, inflight>>

searchVars == <<search>>

jobVars == <<spot_jobs, job_last>>

procVars == <<procs>>

\* The variables of the cloud layer and of the cluster-side monitor.
cloudVars == <<monitor, aws, fetch>>

vars == <<clusters, sinceSet, firstLaunched, last, inflight, search, spot_jobs, job_last, procs, monitor, aws, fetch>>

-----------------------------------------------------------------------------
\* Bounds of the model.

\* Largest idle_minutes a caller passes.
MaxIdleMinutes == 1

\* Minutes of idleness the model lets a cluster accumulate.
MaxClock == 2

\* Pending/running jobs a cluster's queue holds at once.
MaxJobs == 1

-----------------------------------------------------------------------------
\* Names and constants of the program.

SPOT_CONTROLLER_NAME == "sky-spot-controller"

SKY_RESERVED_CLUSTER_NAMES == {SPOT_CONTROLLER_NAME}

SPOT_CONTROLLER_IDLE_MINUTES_TO_AUTOSTOP == 1

ClusterNames == {SPOT_CONTROLLER_NAME, "c1"}

ClusterStatus == {"INIT", "UP", "STOPPED"}

\* Optional values: None is the empty set, a value v is {v}.
None == {}

Some(v) == {v}

TheValue(opt) == CHOOSE v \in opt : TRUE

\* idle_minutes arguments: negative cancels, non-negative schedules.
IdleMinutes == (-1)..MaxIdleMinutes

-----------------------------------------------------------------------------
\* Handles and cluster records.

Resources(use_spot, tpu_vm_pod, placement) ==
    [use_spot |-> use_spot, tpu_vm_pod |-> tpu_vm_pod, placement |-> placement]

Handle(backend, launched_resources) ==
    [backend |-> backend, launched_resources |-> launched_resources]

ClusterRecord(status, handle) ==
    [status |-> status, handle |-> handle, autostop |-> -1, to_down |-> FALSE,
     idle |-> 0, jobs |-> 0]

\* launched_resources exists on CloudVmRayBackend handles; spot and TPU VM pod
\* are properties of those.  Spot and pod clusters cannot be stopped, so none
\* starts STOPPED.
InitRecords(name) ==
    IF name = SPOT_CONTROLLER_NAME
    THEN { ClusterRecord(s, Handle("CloudVmRayBackend", Resources(FALSE, FALSE, 1)))
           : s \in ClusterStatus }
    ELSE { ClusterRecord(s, Handle("CloudVmRayBackend", Resources(FALSE, FALSE, p)))
           : s \in ClusterStatus, p \in {1} }
         \cup
         { ClusterRecord(s, Handle("CloudVmRayBackend", Resources(TRUE, FALSE, p)))
           : s \in {"INIT", "UP"}, p \in {1} }
         \cup
         { ClusterRecord(s, Handle("CloudVmRayBackend", Resources(FALSE, TRUE, p)))
           : s \in {"INIT", "UP"}, p \in {1} }
         \cup
         { ClusterRecord(s, Handle("LocalDockerBackend", Resources(FALSE, FALSE, 1)))
           : s \in ClusterStatus }

\* Every operation addresses the record of one name; the table starts empty
\* or with the record of one cluster.
InitTables ==
    { [n \in {} |-> n] } \cup
    UNION { { [m \in {n} |-> c] : c \in InitRecords(n) } : n \in ClusterNames }

Remove(cs, name) == [n \in (DOMAIN cs) \ {name} |-> cs[n]]

\* The record a table holds under a name, or None.
RecordOf(cs, name) == IF name \in DOMAIN cs THEN Some(cs[name]) ELSE None

NoArgs ==
    [idle_minutes |-> None, to_down |-> FALSE, force |-> FALSE, purge |-> FALSE,
     all |-> FALSE, job_ids |-> {}]

\* The other parts of the model at rest.
NoSearch == [pc |-> "idle"]

NoSpotJobs == [j \in {} |-> j]

NoJobStep == [op |-> "init"]

NoProcs == [p \in {} |-> p]

NoInflight ==
    [start |-> None, spot_queue |-> None, autostop |-> None, cancel |-> None,
     spot_cancel |-> None, queue |-> None, job_status |-> None]

NoMonitor == [pc |-> "off"]

NoAwsCall == [fn |-> "none"]

NoFetch == [pc |-> "off"]

\* The cloud layer and the monitor at rest.
CloudAtRest == monitor = NoMonitor /\ aws = NoAwsCall /\ fetch = NoFetch

Init ==
    /\ search = NoSearch
    /\ spot_jobs = NoSpotJobs
    /\ job_last = NoJobStep
    /\ procs = NoProcs
    /\ CloudAtRest
    /\ clusters \in InitTables
    /\ sinceSet = [n \in ClusterNames |-> 0]
    /\ inflight = NoInflight
    /\ firstLaunched = [n \in ClusterNames |->
                          IF n \in DOMAIN clusters
                          THEN Some(clusters[n].handle.launched_resources)
                          ELSE None]
    /\ last = [op |-> "init", name |-> "", caller_is_owner |-> TRUE,
               err |-> "ok", args |-> NoArgs, pre |-> clusters, ret |-> None,
               provisioned |-> FALSE]

-----------------------------------------------------------------------------
\* Collaborators of core.py: the backend and backend_utils.

IsUp(c) == c.status = "UP"

AutostopActive(c) == c.autostop >= 0

\* global_user_state.get_handle_from_cluster_name: the handle, or None.
get_handle_from_cluster_name(cs, cluster_name) ==
    IF cluster_name \in DOMAIN cs THEN Some(cs[cluster_name].handle) ELSE None

\* backend_utils.refresh_cluster_status_handle: (None, None) when there is no
\* record, the owner identity check when there is one, else (status, handle).
refresh_cluster_status_handle(cs, cluster_name, caller_is_owner) ==
    IF cluster_name \notin DOMAIN cs
    THEN [err |-> "ok", status |-> None, handle |-> None]
    ELSE IF ~caller_is_owner
    THEN [err |-> "ClusterOwnerIdentityMismatchError", status |-> None,
          handle |-> None]
    ELSE [err |-> "ok", status |-> Some(cs[cluster_name].status),
          handle |-> Some(cs[cluster_name].handle)]

\* backend_utils.check_cluster_available: the handle of a cluster that exists,
\* is owned by the caller, is based on CloudVmRayBackend and is UP.
check_cluster_available(cs, cluster_name, caller_is_owner) ==
    LET r == refresh_cluster_status_handle(cs, cluster_name, caller_is_owner) IN
    IF r.err # "ok" THEN [err |-> r.err, handle |-> None]
    ELSE IF r.handle = None THEN [err |-> "ValueError", handle |-> None]
    ELSE IF TheValue(r.handle).backend # "CloudVmRayBackend"
    THEN [err |-> "NotSupportedError", handle |-> None]
    ELSE IF TheValue(r.status) # "UP"
    THEN [err |-> "ClusterNotUpError", handle |-> None]
    ELSE [err |-> "ok", handle |-> r.handle]

\* tpu_utils.is_tpu_vm_pod
is_tpu_vm_pod(launched_resources) == launched_resources.tpu_vm_pod

\* What a placement attempt of backend.provision can end with.  With
\* retry_until_up an exhausted search starts over instead of raising.
ProvisionOutcomes(retry_until_up) ==
    IF retry_until_up
    THEN {"ok", "CredentialError", "KeyboardInterrupt"}
    ELSE {"ok", "ResourcesUnavailableError", "CredentialError",
          "KeyboardInterrupt"}

\* backend.provision, once the record is marked INIT and the search for a
\* placement has ended: on success the record is UP with the resources that
\* were to be provisioned, and a restarted cluster has an empty job queue
\* and an idle clock of zero; on failure the record stays INIT.
provision(cs, cluster_name, to_provision, outcome) ==
    IF outcome = "ok"
    THEN [cs EXCEPT ![cluster_name] =
            [@ EXCEPT !.status = "UP",
                      !.handle = Handle(@.backend, to_provision),
                      !.idle = 0,
                      !.jobs = 0]]
    ELSE [cs EXCEPT ![cluster_name] = [@ EXCEPT !.status = "INIT"]]

\* backend.teardown: terminate removes the record, otherwise the record
\* becomes STOPPED; a stopped cluster runs no job and no idle monitor.
teardown(cs, cluster_name, terminate, purge) ==
    IF terminate
    THEN Remove(cs, cluster_name)
    ELSE [cs EXCEPT ![cluster_name] =
            [@ EXCEPT !.status = "STOPPED", !.idle = 0, !.jobs = 0]]

\* As set_autostop, without restarting the idle clock.
set_autostop_NoReset(cs, cluster_name, idle_minutes, to_down) ==
    [cs EXCEPT ![cluster_name] =
        [@ EXCEPT !.autostop = idle_minutes, !.to_down = to_down]]

\* backend.set_autostop: the setting replaces the stored one; the idle clock
\* restarts when a timer is set while none was active.
set_autostop(cs, cluster_name, idle_minutes, to_down) ==
    LET c == cs[cluster_name] IN
    [cs EXCEPT ![cluster_name] =
        [c EXCEPT !.autostop = idle_minutes,
                  !.to_down = to_down,
                  !.idle = IF idle_minutes >= 0 /\ ~AutostopActive(c)
                           THEN 0 ELSE c.idle]]

\* backend.provision of a cluster whose record a caller read earlier: as
\* provision; the record is created when the name has none by now (a record
\* is created by provisioning).
provision_by_handle(cs, cluster_name, handle, to_provision, outcome) ==
    IF cluster_name \in DOMAIN cs
    THEN provision(cs, cluster_name, to_provision, outcome)
    ELSE [n \in (DOMAIN cs) \cup {cluster_name} |->
             IF n = cluster_name
             THEN ClusterRecord(IF outcome = "ok" THEN "UP" ELSE "INIT",
                                Handle(handle.backend, to_provision))
             ELSE cs[n]]

\* backend.provision, first step, for a cluster whose record a caller read
\* earlier: the record is marked INIT and stays so while the placement is
\* searched for; the record is created, INIT, with the handle read when the
\* name has none by now.
provision_mark_init(cs, cluster_name, handle) ==
    IF cluster_name \in DOMAIN cs
    THEN [cs EXCEPT ![cluster_name] = [@ EXCEPT !.status = "INIT"]]
    ELSE [n \in (DOMAIN cs) \cup {cluster_name} |->
             IF n = cluster_name THEN ClusterRecord("INIT", handle)
             ELSE cs[n]]

\* backend.teardown for a handle read earlier: as teardown; nothing to do
\* when the record is gone.
teardown_by_handle(cs, cluster_name, terminate) ==
    IF cluster_name \in DOMAIN cs
    THEN teardown(cs, cluster_name, terminate, FALSE)
    ELSE cs

\* backend.set_autostop for a handle read earlier: the setting is stored in
\* the record the name has by now, whatever its status; nothing to store
\* when the record is gone.
set_autostop_by_handle(cs, cluster_name, idle_minutes, to_down) ==
    IF cluster_name \in DOMAIN cs
    THEN set_autostop(cs, cluster_name, idle_minutes, to_down)
    ELSE cs

\* backend.cancel_jobs: every pending/running job is cancelled when job_ids
\* is None, else those of the given ids that are pending/running (the jobs
\* of a queue of length k are those of ids 1..k).
cancel_jobs(cs, cluster_name, job_ids) ==
    [cs EXCEPT ![cluster_name] =
        [@ EXCEPT !.jobs = IF job_ids = None
                           THEN 0
                           ELSE @ - Cardinality(TheValue(job_ids) \cap (1..@))]]

\* backend.cancel_jobs for a handle read earlier: the jobs are cancelled in
\* the queue the name has by now (empty once the cluster is stopped);
\* nothing to cancel when the record is gone.
cancel_jobs_by_handle(cs, cluster_name, job_ids) ==
    IF cluster_name \in DOMAIN cs
    THEN cancel_jobs(cs, cluster_name, job_ids)
    ELSE cs

\* History: minutes since an autostop was newly set on a cluster that had
\* none; zero while the cluster has no active setting, and kept as it was
\* when the record is removed.
SinceSetAfter(before, after) ==
    [n \in ClusterNames |->
        IF n \notin DOMAIN after THEN sinceSet[n]
        ELSE IF ~AutostopActive(after[n]) THEN 0
        ELSE IF n \notin DOMAIN before \/ ~AutostopActive(before[n]) THEN 0
        ELSE sinceSet[n]]

-----------------------------------------------------------------------------
\* sky/core.py: the checks each entry point makes before it acts.  Each
\* yields the exception raised, or the step the call goes on to.

\* _start() up to the call of backend.provision: the exception raised,
\* "already_up" for the early return, or "provision".
_start_check(cs, cluster_name, idle_minutes_to_autostop, to_down, force, caller_is_owner) ==
    LET r == refresh_cluster_status_handle(cs, cluster_name, caller_is_owner) IN
    IF r.err # "ok" THEN r.err
    ELSE IF r.handle = None THEN "ValueError"
    ELSE IF ~force /\ TheValue(r.status) = "UP" THEN "already_up"
    ELSE IF TheValue(r.handle).backend # "CloudVmRayBackend"
    THEN "NotSupportedError"
    ELSE IF cluster_name = SPOT_CONTROLLER_NAME /\ to_down THEN "ValueError"
    ELSE IF cluster_name = SPOT_CONTROLLER_NAME /\ idle_minutes_to_autostop # None
    THEN "ValueError"
    ELSE "provision"

\* start(): its own test of the arguments, then _start().
start_check(cs, cluster_name, idle_minutes_to_autostop, to_down, force, caller_is_owner) ==
    IF to_down /\ idle_minutes_to_autostop = None THEN "ValueError"
    ELSE _start_check(cs, cluster_name, idle_minutes_to_autostop, to_down,
                      force, caller_is_owner)

\* The autostop setting _start() applies after provisioning.
start_idle_minutes(cluster_name, idle_minutes_to_autostop) ==
    IF cluster_name = SPOT_CONTROLLER_NAME
    THEN Some(SPOT_CONTROLLER_IDLE_MINUTES_TO_AUTOSTOP)
    ELSE idle_minutes_to_autostop

\* A call of _start() that has passed its checks: its arguments and the
\* handle it has read; pc is "read" before backend.provision,
\* "provisioning" while backend.provision searches for a placement with the
\* record marked INIT, and "provisioned" between backend.provision and
\* backend.set_autostop.
StartCall(cluster_name, idle_minutes_to_autostop, retry_until_up, to_down, force, handle) ==
    [name |-> cluster_name, idle_minutes |-> idle_minutes_to_autostop,
     retry_until_up |-> retry_until_up, to_down |-> to_down, force |-> force,
     seen |-> handle, pc |-> "read"]

\* As start_provisioned, going on to backend.set_autostop also when
\* provisioning has raised.
start_provisioned_OnFailure(c, outcome) ==
    IF start_idle_minutes(c.name, c.idle_minutes) # None
    THEN Some([c EXCEPT !.pc = "provisioned"])
    ELSE None

\* _start() after backend.provision: an exception of provision ends the
\* call; when it has returned, the call goes on to backend.set_autostop if
\* there is a setting to apply, and returns otherwise.
start_provisioned(c, outcome) ==
    IF outcome = "ok" /\ start_idle_minutes(c.name, c.idle_minutes) # None
    THEN Some([c EXCEPT !.pc = "provisioned"])
    ELSE None

\* As start_to_provision, but resolving a placement anew.
start_to_provision_Reresolve(handle) ==
    [handle.launched_resources EXCEPT !.placement = @ + 1]

\* to_provision of _start(): the resources the handle was launched with.
start_to_provision(handle) == handle.launched_resources

\* As stop_check, without the spot guard.
stop_check_NoSpotGuard(cs, cluster_name) ==
    LET handle == get_handle_from_cluster_name(cs, cluster_name) IN
    IF cluster_name \in SKY_RESERVED_CLUSTER_NAMES THEN "NotSupportedError"
    ELSE IF handle = None THEN "ValueError"
    ELSE IF is_tpu_vm_pod(TheValue(handle).launched_resources)
    THEN "NotSupportedError"
    ELSE "teardown"

\* stop() up to the call of backend.teardown.
stop_check(cs, cluster_name) ==
    LET handle == get_handle_from_cluster_name(cs, cluster_name) IN
    IF cluster_name \in SKY_RESERVED_CLUSTER_NAMES THEN "NotSupportedError"
    ELSE IF handle = None THEN "ValueError"
    ELSE IF is_tpu_vm_pod(TheValue(handle).launched_resources)
    THEN "NotSupportedError"
    ELSE IF /\ TheValue(handle).backend = "CloudVmRayBackend"
            /\ TheValue(handle).launched_resources.use_spot
    THEN "NotSupportedError"
    ELSE "teardown"

\* down() up to the call of backend.teardown.
down_check(cs, cluster_name) ==
    LET handle == get_handle_from_cluster_name(cs, cluster_name) IN
    IF handle = None THEN "ValueError" ELSE "teardown"

\* As autostop_check, without the reserved-name guard.
autostop_check_NoReservedGuard(cs, cluster_name, caller_is_owner) ==
    LET a == check_cluster_available(cs, cluster_name, caller_is_owner) IN
    IF a.err # "ok" THEN a.err
    ELSE IF is_tpu_vm_pod(TheValue(a.handle).launched_resources)
    THEN "NotSupportedError"
    ELSE "set_autostop"

\* autostop() up to the call of backend.set_autostop.
autostop_check(cs, cluster_name, caller_is_owner) ==
    LET a == check_cluster_available(cs, cluster_name, caller_is_owner) IN
    IF cluster_name \in SKY_RESERVED_CLUSTER_NAMES THEN "NotSupportedError"
    ELSE IF a.err # "ok" THEN a.err
    ELSE IF is_tpu_vm_pod(TheValue(a.handle).launched_resources)
    THEN "NotSupportedError"
    ELSE "set_autostop"

\* cancel() up to the call of backend.cancel_jobs.
cancel_check(cs, cluster_name, all, job_ids, caller_is_owner) ==
    LET a == check_cluster_available(cs, cluster_name, caller_is_owner) IN
    IF job_ids = {} /\ ~all THEN "ValueError"
    ELSE IF cluster_name \in SKY_RESERVED_CLUSTER_NAMES THEN "NotSupportedError"
    ELSE IF a.err # "ok" THEN a.err
    ELSE "cancel_jobs"

\* As stop_teardown, terminating the cluster.
stop_teardown_Terminate(cs, cluster_name, purge) ==
    teardown(cs, cluster_name, TRUE, purge)

\* The teardown stop() asks of the backend.
stop_teardown(cs, cluster_name, purge) ==
    teardown(cs, cluster_name, FALSE, purge)

\* As down_teardown, stopping the cluster.
down_teardown_Stop(cs, cluster_name, purge) ==
    teardown(cs, cluster_name, FALSE, purge)

\* The teardown down() asks of the backend.
down_teardown(cs, cluster_name, purge) ==
    teardown(cs, cluster_name, TRUE, purge)

\* As autostop_set_autostop, keeping a setting that is already active.
autostop_set_autostop_FirstWins(cs, cluster_name, idle_minutes, to_down) ==
    IF /\ cluster_name \in DOMAIN cs
       /\ AutostopActive(cs[cluster_name])
       /\ idle_minutes >= 0
    THEN cs
    ELSE set_autostop_by_handle(cs, cluster_name, idle_minutes, to_down)

\* The setting autostop() asks of the backend, with the handle the call got
\* from its availability check.
autostop_set_autostop(cs, cluster_name, idle_minutes, to_down) ==
    set_autostop_by_handle(cs, cluster_name, idle_minutes, to_down)

-----------------------------------------------------------------------------
\* sky/core.py: the entry points.

\* History: a call of an entry point, the table it found and its result.
Call(op, cluster_name, caller_is_owner, err, args, ret, provisioned) ==
    [op |-> op, name |-> cluster_name, caller_is_owner |-> caller_is_owner,
     err |-> err, args |-> args, pre |-> clusters, ret |-> ret,
     provisioned |-> provisioned]

\* The arguments of a call of _start() in flight, as the history keeps them.
StartArgs(c) ==
    [NoArgs EXCEPT !.idle_minutes = c.idle_minutes, !.to_down = c.to_down,
                   !.force = c.force]

\* start() up to backend.provision: the call ends with an exception or as a
\* no-op, or goes on with the handle it has read.  The model follows one
\* call of start() at a time.  start() returns nothing.
start(cluster_name, idle_minutes_to_autostop, retry_until_up, to_down, force, caller_is_owner) ==
    LET chk == start_check(clusters, cluster_name, idle_minutes_to_autostop,
                           to_down, force, caller_is_owner)
        args == [NoArgs EXCEPT !.idle_minutes = idle_minutes_to_autostop,
                               !.to_down = to_down,
                               !.force = force]
    IN
    /\ inflight.start = None
    /\ inflight' = IF chk = "provision"
                   THEN [inflight EXCEPT !.start =
                           Some(StartCall(cluster_name,
                                          idle_minutes_to_autostop,
                                          retry_until_up, to_down, force,
                                          clusters[cluster_name].handle))]
                   ELSE inflight
    /\ last' = Call("start", cluster_name, caller_is_owner,
                    IF chk \in {"provision", "already_up"} THEN "ok" ELSE chk,
                    args, None, FALSE)
    /\ UNCHANGED <<clusters, sinceSet, firstLaunched, search, spot_jobs, job_last, procs, cloudVars>>

\* A call of start() enters backend.provision with the handle it read: the
\* record is marked INIT.
start_provision_mark ==
    /\ inflight.start # None
    /\ LET c == TheValue(inflight.start) IN
       /\ c.pc = "read"
       /\ clusters' = provision_mark_init(clusters, c.name, c.seen)
       /\ sinceSet' = SinceSetAfter(clusters, clusters')
       /\ inflight' = [inflight EXCEPT !.start =
                         Some([c EXCEPT !.pc = "provisioning"])]
       /\ last' = Call("start_provision_mark", c.name, TRUE, "ok",
                       StartArgs(c), None, FALSE)
    /\ UNCHANGED <<firstLaunched, search, spot_jobs, job_last, procs, cloudVars>>

\* backend.provision of a call of start() ends: the search for a placement
\* has succeeded or failed.
start_provision(outcome) ==
    /\ inflight.start # None
    /\ LET c == TheValue(inflight.start) IN
       /\ c.pc = "provisioning"
       /\ outcome \in ProvisionOutcomes(c.retry_until_up)
       /\ clusters' = provision_by_handle(clusters, c.name, c.seen,
                                          start_to_provision(c.seen), outcome)
       /\ sinceSet' = SinceSetAfter(clusters, clusters')
       /\ inflight' = [inflight EXCEPT !.start = start_provisioned(c, outcome)]
       /\ last' = Call("start", c.name, TRUE, outcome, StartArgs(c), None, TRUE)
    /\ UNCHANGED <<firstLaunched, search, spot_jobs, job_last, procs, cloudVars>>

\* backend.set_autostop of a call of start() whose provisioning has
\* returned; the call returns.
start_set_autostop ==
    /\ inflight.start # None
    /\ LET c == TheValue(inflight.start)
           idle == start_idle_minutes(c.name, c.idle_minutes)
       IN
       /\ c.pc = "provisioned"
       /\ clusters' = set_autostop_by_handle(clusters, c.name, TheValue(idle),
                                             c.to_down)
       /\ sinceSet' = SinceSetAfter(clusters, clusters')
       /\ inflight' = [inflight EXCEPT !.start = None]
       /\ last' = Call("start_set_autostop", c.name, TRUE, "ok", StartArgs(c),
                       None, FALSE)
    /\ UNCHANGED <<firstLaunched, search, spot_jobs, job_last, procs, cloudVars>>

stop(cluster_name, purge) ==
    LET chk == stop_check(clusters, cluster_name)
        args == [NoArgs EXCEPT !.purge = purge]
    IN
    /\ IF chk = "teardown"
       THEN LET after == stop_teardown(clusters, cluster_name, purge) IN
            /\ clusters' = after
            /\ sinceSet' = SinceSetAfter(clusters, after)
            /\ last' = Call("stop", cluster_name, TRUE, "ok", args, None, FALSE)
       ELSE /\ UNCHANGED <<clusters, sinceSet>>
            /\ last' = Call("stop", cluster_name, TRUE, chk, args, None, FALSE)
    /\ UNCHANGED <<firstLaunched, inflight, search, spot_jobs, job_last, procs, cloudVars>>

down(cluster_name, purge) ==
    LET chk == down_check(clusters, cluster_name)
        args == [NoArgs EXCEPT !.purge = purge]
    IN
    /\ IF chk = "teardown"
       THEN LET after == down_teardown(clusters, cluster_name, purge) IN
            /\ clusters' = after
            /\ sinceSet' = SinceSetAfter(clusters, after)
            /\ last' = Call("down", cluster_name, TRUE, "ok", args, None, FALSE)
       ELSE /\ UNCHANGED <<clusters, sinceSet>>
            /\ last' = Call("down", cluster_name, TRUE, chk, args, None, FALSE)
    /\ UNCHANGED <<firstLaunched, inflight, search, spot_jobs, job_last, procs, cloudVars>>

\* A call of autostop() that has passed its checks, with the handle it got.
AutostopCall(cluster_name, idle_minutes, to_down, handle) ==
    [name |-> cluster_name, idle_minutes |-> idle_minutes,
     to_down |-> to_down, seen |-> handle]

\* A call of cancel() that has passed its checks, with the handle it got.
CancelCall(cluster_name, all, job_ids, handle) ==
    [name |-> cluster_name, all |-> all, job_ids |-> job_ids, seen |-> handle]

\* autostop() up to backend.set_autostop: the call ends with an exception,
\* or goes on with the handle check_cluster_available has returned.
autostop(cluster_name, idle_minutes, to_down, caller_is_owner) ==
    LET chk == autostop_check(clusters, cluster_name, caller_is_owner)
        args == [NoArgs EXCEPT !.idle_minutes = Some(idle_minutes),
                               !.to_down = to_down]
    IN
    /\ inflight.autostop = None
    /\ inflight' = IF chk = "set_autostop"
                   THEN [inflight EXCEPT !.autostop =
                           Some(AutostopCall(cluster_name, idle_minutes,
                                             to_down,
                                             clusters[cluster_name].handle))]
                   ELSE inflight
    /\ last' = Call("autostop", cluster_name, caller_is_owner,
                    IF chk = "set_autostop" THEN "ok" ELSE chk,
                    args, None, FALSE)
    /\ UNCHANGED <<clusters, sinceSet, firstLaunched, search, spot_jobs, job_last, procs, cloudVars>>

\* backend.set_autostop of a call of autostop(), with the handle the call
\* got; the call returns.
autostop_act ==
    /\ inflight.autostop # None
    /\ LET c == TheValue(inflight.autostop) IN
       /\ clusters' = autostop_set_autostop(clusters, c.name, c.idle_minutes,
                                            c.to_down)
       /\ sinceSet' = SinceSetAfter(clusters, clusters')
       /\ inflight' = [inflight EXCEPT !.autostop = None]
       /\ last' = Call("autostop_act", c.name, TRUE, "ok",
                       [NoArgs EXCEPT !.idle_minutes = Some(c.idle_minutes),
                                      !.to_down = c.to_down],
                       None, FALSE)
    /\ UNCHANGED <<firstLaunched, search, spot_jobs, job_last, procs, cloudVars>>

\* cancel() up to backend.cancel_jobs: the call ends with an exception, or
\* goes on with the handle check_cluster_available has returned.
cancel(cluster_name, all, job_ids, caller_is_owner) ==
    LET chk == cancel_check(clusters, cluster_name, all, job_ids,
                            caller_is_owner)
        args == [NoArgs EXCEPT !.all = all, !.job_ids = job_ids]
    IN
    /\ inflight.cancel = None
    /\ inflight' = IF chk = "cancel_jobs"
                   THEN [inflight EXCEPT !.cancel =
                           Some(CancelCall(cluster_name, all, job_ids,
                                           clusters[cluster_name].handle))]
                   ELSE inflight
    /\ last' = Call("cancel", cluster_name, caller_is_owner,
                    IF chk = "cancel_jobs" THEN "ok" ELSE chk,
                    args, None, FALSE)
    /\ UNCHANGED <<clusters, sinceSet, firstLaunched, search, spot_jobs, job_last, procs, cloudVars>>

\* backend.cancel_jobs of a call of cancel(), with the handle the call got:
\* every job when all is set, else the jobs named; the call returns.
cancel_act ==
    /\ inflight.cancel # None
    /\ LET c == TheValue(inflight.cancel) IN
       /\ clusters' = cancel_jobs_by_handle(clusters, c.name,
                                            IF c.all THEN None
                                            ELSE Some(c.job_ids))
       /\ inflight' = [inflight EXCEPT !.cancel = None]
       /\ last' = Call("cancel_act", c.name, TRUE, "ok",
                       [NoArgs EXCEPT !.all = c.all, !.job_ids = c.job_ids],
                       None, FALSE)
    /\ UNCHANGED <<sinceSet, firstLaunched, search, spot_jobs, job_last, procs, cloudVars>>

-----------------------------------------------------------------------------
\* The cluster side: the job queue and the idle monitor.

\* History: a step of a cluster's job queue or monitor.
Event(op, cluster_name) ==
    [op |-> op, name |-> cluster_name, caller_is_owner |-> TRUE,
     err |-> "ok", args |-> NoArgs, pre |-> clusters, ret |-> None,
     provisioned |-> FALSE]

\* A job is submitted to an UP cluster: the idle clock restarts.
submit_job(cluster_name) ==
    /\ cluster_name \in DOMAIN clusters
    /\ IsUp(clusters[cluster_name])
    /\ clusters[cluster_name].jobs < MaxJobs
    /\ clusters' = [clusters EXCEPT ![cluster_name] =
                      [@ EXCEPT !.jobs = @ + 1, !.idle = 0]]
    /\ last' = Event("submit_job", cluster_name)
    /\ UNCHANGED <<sinceSet, firstLaunched, inflight, search, spot_jobs, job_last, procs, cloudVars>>

\* A pending/running job of the cluster ends.
finish_job(cluster_name) ==
    /\ cluster_name \in DOMAIN clusters
    /\ clusters[cluster_name].jobs > 0
    /\ clusters' = [clusters EXCEPT ![cluster_name] = [@ EXCEPT !.jobs = @ - 1]]
    /\ last' = Event("finish_job", cluster_name)
    /\ UNCHANGED <<sinceSet, firstLaunched, inflight, search, spot_jobs, job_last, procs, cloudVars>>

\* A minute passes on an UP cluster: its monitor polls the job queue.
tick(cluster_name) ==
    /\ cluster_name \in DOMAIN clusters
    /\ IsUp(clusters[cluster_name])
    /\ clusters[cluster_name].idle < MaxClock
    /\ clusters' = [clusters EXCEPT ![cluster_name] =
                      [@ EXCEPT !.idle = IF clusters[cluster_name].jobs = 0
                                         THEN @ + 1 ELSE 0]]
    /\ sinceSet' = [sinceSet EXCEPT ![cluster_name] =
                      IF AutostopActive(clusters[cluster_name]) /\ @ < MaxClock
                      THEN @ + 1 ELSE @]
    /\ last' = Event("tick", cluster_name)
    /\ UNCHANGED <<firstLaunched, inflight, search, spot_jobs, job_last, procs, cloudVars>>

\* As autostop_due, ignoring the job queue.
autostop_due_IgnoreJobs(c) ==
    /\ IsUp(c)
    /\ AutostopActive(c)
    /\ c.idle >= c.autostop

\* The monitor's test: an active setting, no pending/running job, and an
\* idle clock that has reached idle_minutes.
autostop_due(c) ==
    /\ IsUp(c)
    /\ AutostopActive(c)
    /\ c.jobs = 0
    /\ c.idle >= c.autostop

\* The monitor stops the cluster, or tears it down when to_down is set.
autostop_event(cluster_name) ==
    /\ cluster_name \in DOMAIN clusters
    /\ autostop_due(clusters[cluster_name])
    /\ clusters' = teardown(clusters, cluster_name,
                            clusters[cluster_name].to_down, FALSE)
    /\ sinceSet' = SinceSetAfter(clusters, clusters')
    /\ last' = Event(IF clusters[cluster_name].to_down
                     THEN "autostop_event_down"
                     ELSE "autostop_event_stop", cluster_name)
    /\ UNCHANGED <<firstLaunched, inflight, search, spot_jobs, job_last, procs, cloudVars>>

-----------------------------------------------------------------------------

\* The calls the model makes.  A call whose result does not depend on its
\* arguments (the name has no record, or the caller is not the owner of the
\* cluster) is made once per entry point, with the arguments at their
\* defaults; calls on a cluster that exists take every argument.
OptIdleMinutes == {None} \cup {Some(m) : m \in IdleMinutes}

Existing == DOMAIN clusters

Missing == ClusterNames \ DOMAIN clusters

\* The ids a caller of cancel() names.
JobIds == 1..MaxJobs

\* No call of the client is in flight: the client makes its calls one after
\* the other, while the job queue and the monitor of a cluster take their
\* steps at any time.
Idle == inflight = NoInflight

Next ==
    \/ \E n \in Existing, i \in OptIdleMinutes, r \in BOOLEAN,
          d \in BOOLEAN, f \in BOOLEAN :
          Idle /\ start(n, i, r, d, f, TRUE)
    \/ \E n \in Existing : Idle /\ start(n, None, FALSE, FALSE, FALSE, FALSE)
    \/ \E n \in Missing : Idle /\ start(n, None, FALSE, FALSE, FALSE, TRUE)
    \/ start_provision_mark
    \/ \E out \in ProvisionOutcomes(FALSE) : start_provision(out)
    \/ start_set_autostop
    \/ \E n \in Existing, p \in BOOLEAN : Idle /\ stop(n, p)
    \/ \E n \in Missing : Idle /\ stop(n, FALSE)
    \/ \E n \in Existing, p \in BOOLEAN : Idle /\ down(n, p)
    \/ \E n \in Missing : Idle /\ down(n, FALSE)
    \/ \E n \in Existing, i \in IdleMinutes, d \in BOOLEAN :
          Idle /\ autostop(n, i, d, TRUE)
    \/ \E n \in Existing : Idle /\ autostop(n, 0, FALSE, FALSE)
    \/ \E n \in Missing : Idle /\ autostop(n, 0, FALSE, TRUE)
    \/ autostop_act
    \/ \E n \in Existing, a \in BOOLEAN, ids \in SUBSET JobIds :
          Idle /\ cancel(n, a, ids, TRUE)
    \/ \E n \in Existing : Idle /\ cancel(n, TRUE, {}, FALSE)
    \/ \E n \in Missing : Idle /\ cancel(n, TRUE, {}, TRUE)
    \/ cancel_act
    \/ \E n \in ClusterNames : submit_job(n)
    \/ \E n \in ClusterNames : finish_job(n)
    \/ \E n \in ClusterNames : tick(n)
    \/ \E n \in ClusterNames : autostop_event(n)

Spec == Init /\ [][Next]_vars

-----------------------------------------------------------------------------
\* Properties of the lifecycle controller.

\* The record the last call found under its name, and the one it left.
Before == RecordOf(last.pre, last.name)

After == RecordOf(clusters, last.name)

Found == Before # None

Unchanged == clusters = last.pre

StatusOf(rec) == IF rec = None THEN "NONE" ELSE TheValue(rec).status

\* C1: start() on a cluster whose status is UP, called without force, is a
\* no-op: nothing is provisioned, the cluster record is unchanged, and the
\* existing handle is returned.
C1_StartOnUpReturnsHandle ==
    ( /\ last.op = "start"
      /\ last.err = "ok"
      /\ ~last.args.force
      /\ Found
      /\ StatusOf(Before) = "UP" )
    => ( /\ ~last.provisioned
         /\ Unchanged
         /\ last.ret = Some(TheValue(Before).handle) )

\* C2: stop() on an existing spot-backed cluster raises NotSupportedError,
\* whatever purge is, and leaves the cluster table as it was.
C2_StopSpotRejected ==
    ( /\ last.op = "stop"
      /\ Found
      /\ TheValue(Before).handle.launched_resources.use_spot )
    => ( /\ last.err = "NotSupportedError"
         /\ Unchanged )

\* C2 witness: stop(purge=True) was rejected on a spot cluster that is neither
\* reserved nor a TPU VM pod.
C2_Witness ==
    /\ last.op = "stop"
    /\ last.args.purge
    /\ last.err = "NotSupportedError"
    /\ Found
    /\ TheValue(Before).handle.launched_resources.use_spot
    /\ ~is_tpu_vm_pod(TheValue(Before).handle.launched_resources)
    /\ last.name \notin SKY_RESERVED_CLUSTER_NAMES

\* The clusters the guard of stop() and autostop() is about.
Guarded ==
    /\ last.op \in {"stop", "autostop"}
    /\ Found
    /\ \/ last.name \in SKY_RESERVED_CLUSTER_NAMES
       \/ is_tpu_vm_pod(TheValue(Before).handle.launched_resources)

\* C3 as stated: autostop() and stop() on a reserved-name cluster or on a
\* TPU VM pod cluster raise NotSupportedError before any state change.
C3_GuardRaisesNotSupported ==
    Guarded => (last.err = "NotSupportedError" /\ Unchanged)

\* C3 as amended: on such a cluster both calls raise before any state change;
\* the error is NotSupportedError for stop(), for a reserved name, and for
\* autostop() by the owner on a pod cluster that is UP, and otherwise it is
\* the error of autostop()'s availability check.
C3_GuardRaisesBeforeChange ==
    Guarded =>
        /\ Unchanged
        /\ last.err \in {"NotSupportedError", "ClusterNotUpError",
                         "ClusterOwnerIdentityMismatchError"}
        /\ ( \/ last.op = "stop"
             \/ last.name \in SKY_RESERVED_CLUSTER_NAMES
             \/ (last.caller_is_owner /\ StatusOf(Before) = "UP") )
           => last.err = "NotSupportedError"
        /\ ( /\ last.op = "autostop"
             /\ last.name \notin SKY_RESERVED_CLUSTER_NAMES
             /\ last.caller_is_owner
             /\ StatusOf(Before) # "UP" )
           => last.err = "ClusterNotUpError"

\* C3 witness: autostop() on a TPU VM pod cluster that is not UP raised
\* ClusterNotUpError.
C3_Witness ==
    /\ Guarded
    /\ last.op = "autostop"
    /\ is_tpu_vm_pod(TheValue(Before).handle.launched_resources)
    /\ StatusOf(Before) = "INIT"
    /\ last.err = "ClusterNotUpError"

\* C4: the (cloud, region, zone) placement of a cluster stays the one first
\* recorded: start() provisions the resources the handle was launched with.
C4_PlacementFixed ==
    \A n \in DOMAIN clusters :
        /\ firstLaunched[n] # None
        /\ clusters[n].handle.launched_resources.placement
               = TheValue(firstLaunched[n]).placement

\* C4 witness: start() has provisioned a cluster again with success.
C4_Witness ==
    /\ last.op = "start"
    /\ last.provisioned
    /\ last.err = "ok"
    /\ StatusOf(Before) = "INIT"
    /\ StatusOf(After) = "UP"
    /\ firstLaunched[last.name] # None
    /\ TheValue(After).handle.launched_resources.placement
           = TheValue(firstLaunched[last.name]).placement

\* The steps of the monitor.
MonitorOps == {"autostop_event_stop", "autostop_event_down"}

\* What the lifecycle state machine says of INIT and UP, common to C5 as
\* stated and as amended.  The status becomes INIT only when a provisioning
\* begins, which start() has started from INIT or STOPPED unless it was
\* forced; the record is INIT while that provisioning is in progress and
\* after it has failed; it becomes UP only when that provisioning succeeds.
ProvisioningInProgress ==
    /\ inflight.start # None
    /\ TheValue(inflight.start).pc = "provisioning"

C5_InitAndUp ==
    /\ (StatusOf(Before) # StatusOf(After) /\ StatusOf(After) = "INIT")
       => last.op = "start_provision_mark"
    /\ (last.op = "start_provision_mark")
       => /\ StatusOf(After) = "INIT"
          /\ StatusOf(Before) \in {"INIT", "STOPPED"} \/ last.args.force
    /\ ProvisioningInProgress
       => StatusOf(RecordOf(clusters, TheValue(inflight.start).name)) = "INIT"
    /\ (last.op = "start" /\ last.provisioned)
       => /\ StatusOf(Before) = "INIT"
          /\ StatusOf(After) = IF last.err = "ok" THEN "UP" ELSE "INIT"
    /\ (StatusOf(Before) # StatusOf(After) /\ StatusOf(After) = "UP")
       => (last.op = "start" /\ last.provisioned /\ last.err = "ok")

\* C5 as stated: a stored status changes only along the lifecycle state
\* machine: to STOPPED by a stop of an UP cluster, to UP by a successful
\* provisioning started from INIT or STOPPED or by a forced start, it is
\* INIT while provisioning is in progress or after a failed attempt, and
\* the record disappears only through down.
C5_Lifecycle ==
    /\ C5_InitAndUp
    /\ (StatusOf(Before) # StatusOf(After) /\ StatusOf(After) = "STOPPED")
       => /\ last.op \in {"stop", "autostop_event_stop"}
          /\ StatusOf(Before) = "UP"
    /\ (StatusOf(Before) # StatusOf(After) /\ StatusOf(After) = "NONE")
       => last.op \in {"down", "autostop_event_down"}

\* C5 as amended: as stated, except that stop() also stops a cluster that is
\* INIT (it does not look at the status); the monitor stops UP clusters only.
C5_LifecycleStopFromInit ==
    /\ C5_InitAndUp
    /\ (StatusOf(Before) # StatusOf(After) /\ StatusOf(After) = "STOPPED")
       => \/ last.op = "stop" /\ StatusOf(Before) \in {"UP", "INIT"}
          \/ last.op = "autostop_event_stop" /\ StatusOf(Before) = "UP"
    /\ (StatusOf(Before) # StatusOf(After) /\ StatusOf(After) = "NONE")
       => last.op \in {"down", "autostop_event_down"}

\* C5 witness: stop() has stopped a cluster that was INIT.
C5_Witness ==
    /\ last.op = "stop"
    /\ last.err = "ok"
    /\ StatusOf(Before) = "INIT"
    /\ StatusOf(After) = "STOPPED"

\* C6: down() on an existing cluster, whatever its status, removes the
\* record; down() on a name with no record raises ValueError and changes
\* nothing.
C6_DownRemoves ==
    (last.op = "down") =>
        IF Found
        THEN last.err = "ok" /\ After = None
        ELSE last.err = "ValueError" /\ Unchanged

\* C6 witness: down() has removed the record of a cluster that was INIT.
C6_Witness ==
    /\ last.op = "down"
    /\ StatusOf(Before) = "INIT"
    /\ After = None

\* C7: down() on the managed spot controller raises NotSupportedError and
\* the controller's record stays.
C7_DownControllerRejected ==
    ( /\ last.op = "down"
      /\ last.name = SPOT_CONTROLLER_NAME
      /\ Found )
    => ( /\ last.err = "NotSupportedError"
         /\ Unchanged )

\* C8: when an accepted autostop() has stored its setting, the cluster's
\* setting is the one of that call: none active for a negative idle_minutes,
\* otherwise that idle_minutes with that call's down flag.  The setting is
\* stored in the record the cluster has when backend.set_autostop runs; an
\* accepted call passes its checks with the table unchanged.
C8_LastWriteWins ==
    /\ (last.op = "autostop" /\ last.err = "ok") =>
           /\ Unchanged
           /\ StatusOf(Before) = "UP"
           /\ inflight.autostop # None
    /\ (last.op = "autostop_act" /\ Found) =>
        LET idle_minutes == TheValue(last.args.idle_minutes)
            c == TheValue(After)
        IN  /\ After # None
            /\ (idle_minutes < 0) => ~AutostopActive(c)
            /\ (idle_minutes >= 0) =>
                   /\ c.autostop = idle_minutes
                   /\ c.to_down = last.args.to_down

\* C8 witness: an accepted autostop() has replaced an active setting by
\* another one.
C8_Witness ==
    /\ last.op = "autostop_act"
    /\ Found
    /\ AutostopActive(TheValue(Before))
    /\ TheValue(last.args.idle_minutes) >= 0
    /\ TheValue(Before).autostop # TheValue(last.args.idle_minutes)
    /\ TheValue(Before).to_down # last.args.to_down

\* C9: an autostop set while no setting is active restarts the idle clock,
\* and the monitor does not stop or tear down the cluster before idle_minutes
\* have passed since that set.
C9_NewAutostopRestartsClock ==
    /\ ( /\ last.op = "autostop_act"
         /\ Found
         /\ TheValue(last.args.idle_minutes) >= 0
         /\ ~AutostopActive(TheValue(Before)) )
       => ( /\ TheValue(After).idle = 0
            /\ sinceSet[last.name] = 0 )
    /\ \A n \in DOMAIN clusters :
           AutostopActive(clusters[n]) => clusters[n].idle <= sinceSet[n]
    /\ (last.op \in MonitorOps) =>
           sinceSet[last.name] >= TheValue(Before).autostop

\* C9 witness: an autostop was set on a cluster with no active setting that
\* had been idle for longer than the idle_minutes set.
C9_Witness ==
    /\ last.op = "autostop_act"
    /\ Found
    /\ StatusOf(Before) = "UP"
    /\ ~AutostopActive(TheValue(Before))
    /\ TheValue(last.args.idle_minutes) >= 0
    /\ TheValue(Before).idle > TheValue(last.args.idle_minutes)

\* C10: the monitor acts only on a cluster with an active setting, no
\* pending/running job and an idle clock that has reached idle_minutes; it
\* tears the cluster down exactly when to_down is set and stops it otherwise.
C10_MonitorTrigger ==
    (last.op \in MonitorOps) =>
        LET c == TheValue(Before) IN
        /\ Found
        /\ AutostopActive(c)
        /\ c.jobs = 0
        /\ c.idle >= c.autostop
        /\ StatusOf(Before) = "UP"
        /\ IF c.to_down
           THEN last.op = "autostop_event_down" /\ After = None
           ELSE last.op = "autostop_event_stop" /\ StatusOf(After) = "STOPPED"

\* C10 witness: the monitor has torn down a cluster whose setting had to_down
\* and a positive idle_minutes.
C10_Witness ==
    /\ last.op = "autostop_event_down"
    /\ TheValue(Before).to_down
    /\ TheValue(Before).autostop > 0
    /\ After = None

-----------------------------------------------------------------------------
\* sky/clouds/aws.py: the region groups the failover loop is given.

\* Rounds of the whole group list a search with retry_until_up makes.
MaxRounds == 2

Region(name, zones) == [name |-> name, zones |-> zones]

\* AWS.regions(): the static region list, in the order of the source.
regions ==
    << Region("us-west-1", <<"us-west-1a", "us-west-1b">>),
       Region("us-west-2", <<"us-west-2a", "us-west-2b", "us-west-2c",
                             "us-west-2d">>),
       Region("us-east-2", <<"us-east-2a", "us-east-2b", "us-east-2c">>),
       Region("us-east-1", <<"us-east-1a", "us-east-1b", "us-east-1c",
                             "us-east-1d", "us-east-1e", "us-east-1f">>) >>

InstanceTypes == {"m6i.2xlarge", "p3.2xlarge", "p4d.24xlarge"}

\* service_catalog.get_region_zones_for_instance_type: the regions (with the
\* zones) that stock the instance type, in catalog order; none for an
\* instance type that is not offered as spot.
get_region_zones_for_instance_type(instance_type, use_spot) ==
    IF instance_type = "m6i.2xlarge"
    THEN IF use_spot
         THEN << Region("us-east-2", <<"us-east-2a", "us-east-2b">>),
                 Region("us-west-2", <<"us-west-2c">>) >>
         ELSE << Region("us-east-1", <<"us-east-1a", "us-east-1b">>),
                 Region("us-east-2", <<"us-east-2a", "us-east-2b",
                                       "us-east-2c">>),
                 Region("us-west-2", <<"us-west-2a", "us-west-2c">>) >>
    ELSE IF instance_type = "p3.2xlarge"
    THEN IF use_spot
         THEN << Region("us-west-2", <<"us-west-2a">>) >>
         ELSE << Region("us-west-2", <<"us-west-2a", "us-west-2b">>),
                 Region("us-east-1", <<"us-east-1c">>) >>
    ELSE IF use_spot
         THEN << >>
         ELSE << Region("us-east-1", <<"us-east-1d">>) >>

\* The region list region_zones_provision_loop reads: the static list when
\* instance_type is None, the catalog's otherwise.
provision_loop_regions(instance_type, use_spot) ==
    IF instance_type = None
    THEN regions
    ELSE get_region_zones_for_instance_type(TheValue(instance_type), use_spot)

\* As region_zones_provision_loop, yielding one zone of each region.
region_zones_provision_loop_OneZone(instance_type, use_spot) ==
    LET rs == provision_loop_regions(instance_type, use_spot) IN
    [i \in 1..Len(rs) |-> <<rs[i], SubSeq(rs[i].zones, 1, 1)>>]

\* As region_zones_provision_loop, yielding the regions last to first.
region_zones_provision_loop_Reversed(instance_type, use_spot) ==
    LET rs == provision_loop_regions(instance_type, use_spot) IN
    [i \in 1..Len(rs) |-> <<rs[Len(rs) + 1 - i], rs[Len(rs) + 1 - i].zones>>]

\* AWS.region_zones_provision_loop: what the generator yields, in order: one
\* (region, all zones of the region) pair per region.
region_zones_provision_loop(instance_type, use_spot) ==
    LET rs == provision_loop_regions(instance_type, use_spot) IN
    [i \in 1..Len(rs) |-> <<rs[i], rs[i].zones>>]

\* As provision_retry_until_up, dropping the caller's flag.
provision_retry_until_up_Dropped(retry_until_up) == FALSE

\* retry_until_up as _start() hands it to backend.provision.
provision_retry_until_up(retry_until_up) == retry_until_up

-----------------------------------------------------------------------------
\* The provisioning failover loop of backend.provision.

OptInstanceTypes == {None} \cup {Some(t) : t \in InstanceTypes}

\* Errors of a placement attempt: the retryable one and the fatal ones.
ResourcesUnavailable == "ResourcesUnavailableError"

FatalErrors == {"CredentialError", "ConfigurationError"}

\* A provisioning call enters the loop: nothing attempted yet.  attempted
\* and errors are the history of the attempts begun and of how each ended;
\* remote is where remote resources exist, cleaned what an abort tore down.
StartSearch(instance_type, use_spot, retry_until_up) ==
    [pc |-> "between",
     request |-> [instance_type |-> instance_type, use_spot |-> use_spot,
                  retry_until_up |-> retry_until_up],
     groups |-> region_zones_provision_loop(instance_type, use_spot),
     retry_until_up |-> provision_retry_until_up(retry_until_up),
     idx |-> 1,
     round |-> 1,
     attempted |-> << >>,
     errors |-> << >>,
     cancel |-> FALSE,
     signalled_in |-> "none",
     remote |-> {},
     cleaned |-> {},
     result |-> "none"]

FailoverInit ==
    /\ clusters = [n \in {} |-> n]
    /\ sinceSet = [n \in ClusterNames |-> 0]
    /\ inflight = NoInflight
    /\ firstLaunched = [n \in ClusterNames |-> None]
    /\ last = [op |-> "init", name |-> "", caller_is_owner |-> TRUE,
               err |-> "ok", args |-> NoArgs, pre |-> clusters, ret |-> None,
               provisioned |-> FALSE]
    /\ spot_jobs = NoSpotJobs
    /\ job_last = NoJobStep
    /\ procs = NoProcs
    /\ CloudAtRest
    /\ \E t \in OptInstanceTypes, s \in BOOLEAN, r \in BOOLEAN :
           search = StartSearch(t, s, r)

\* The region of the group the loop is at.
CurrentRegion == search.groups[search.idx][1].name

\* The loop takes the next group and starts placing on all its zones; what a
\* failed attempt before it left behind has been torn down.
attempt_begin ==
    /\ search.pc = "between"
    /\ ~search.cancel
    /\ search.idx <= Len(search.groups)
    /\ search' = [search EXCEPT !.pc = "attempting",
                                !.attempted = Append(@, CurrentRegion),
                                !.remote = {}]
    /\ UNCHANGED <<lifecycleVars, jobVars, procVars, cloudVars>>

\* The attempt creates a remote resource in the region of its group.
attempt_create ==
    /\ search.pc = "attempting"
    /\ CurrentRegion \notin search.remote
    /\ search' = [search EXCEPT !.remote = @ \cup {CurrentRegion}]
    /\ UNCHANGED <<lifecycleVars, jobVars, procVars, cloudVars>>

\* The attempt succeeds: the cluster is placed in the region of the group.
attempt_succeed ==
    /\ search.pc = "attempting"
    /\ search' = [search EXCEPT !.pc = "done",
                                !.errors = Append(@, "ok"),
                                !.remote = {CurrentRegion},
                                !.result = "ok"]
    /\ UNCHANGED <<lifecycleVars, jobVars, procVars, cloudVars>>

\* The attempt fails: ResourcesUnavailableError advances the loop to the
\* next group, a credential or configuration error ends the call with it.
attempt_fail(err) ==
    /\ search.pc = "attempting"
    /\ search' = IF err = ResourcesUnavailable
                 THEN [search EXCEPT !.pc = "between",
                                     !.errors = Append(@, err),
                                     !.idx = @ + 1]
                 ELSE [search EXCEPT !.pc = "done",
                                     !.errors = Append(@, err),
                                     !.remote = {},
                                     !.result = err]
    /\ UNCHANGED <<lifecycleVars, jobVars, procVars, cloudVars>>

\* Every group has been attempted: with retry_until_up the loop starts over
\* from the first group, otherwise the call raises ResourcesUnavailableError.
exhausted ==
    /\ search.pc = "between"
    /\ ~search.cancel
    /\ search.idx > Len(search.groups)
    /\ search.retry_until_up => search.round < MaxRounds
    /\ search' = IF search.retry_until_up
                 THEN [search EXCEPT !.idx = 1, !.round = @ + 1,
                                     !.remote = {}]
                 ELSE [search EXCEPT !.pc = "done", !.remote = {},
                                     !.result = ResourcesUnavailable]
    /\ UNCHANGED <<lifecycleVars, jobVars, procVars, cloudVars>>

\* The user interrupts the search.
cancel_signal ==
    /\ search.pc \in {"between", "attempting"}
    /\ ~search.cancel
    /\ search' = [search EXCEPT !.cancel = TRUE, !.signalled_in = search.pc]
    /\ UNCHANGED <<lifecycleVars, jobVars, procVars, cloudVars>>

\* As abort_on_cancel, taken in the middle of an attempt and without cleanup.
abort_on_cancel_Immediately ==
    /\ search.pc \in {"between", "attempting"}
    /\ search.cancel
    /\ search' = [search EXCEPT !.pc = "done",
                                !.result = "KeyboardInterrupt"]
    /\ UNCHANGED <<lifecycleVars, jobVars, procVars, cloudVars>>

\* The loop sees the interrupt between two attempts: it tears down what the
\* attempt before left behind and hands the interrupt to the caller.
abort_on_cancel ==
    /\ search.pc = "between"
    /\ search.cancel
    /\ search' = [search EXCEPT !.pc = "done", !.remote = {},
                                !.cleaned = search.remote,
                                !.result = "KeyboardInterrupt"]
    /\ UNCHANGED <<lifecycleVars, jobVars, procVars, cloudVars>>

FailoverNext ==
    \/ attempt_begin
    \/ attempt_create
    \/ attempt_succeed
    \/ \E err \in {ResourcesUnavailable} \cup FatalErrors : attempt_fail(err)
    \/ exhausted
    \/ cancel_signal
    \/ abort_on_cancel

FailoverSpec == FailoverInit /\ [][FailoverNext]_vars

-----------------------------------------------------------------------------
\* Properties of the failover loop.

\* The names of the regions the search was given, in the order given.
GivenRegions ==
    LET rs == provision_loop_regions(search.request.instance_type,
                                     search.request.use_spot) IN
    [i \in 1..Len(rs) |-> rs[i].name]

NumGroups == Len(GivenRegions)

\* The k-th attempt of a search goes to this group of the list.
GroupOfAttempt(k) == ((k - 1) % NumGroups) + 1

AllUnavailable(errs) == \A k \in 1..Len(errs) : errs[k] = ResourcesUnavailable

\* C11: the groups are attempted in the order given; after an attempt that
\* failed with ResourcesUnavailableError the loop stands at the next group;
\* an attempt that failed with a credential or configuration error ends the
\* call with that error, and it is the last attempt made.
C11_FailoverOrder ==
    /\ Len(search.attempted) - Len(search.errors) \in {0, 1}
    /\ \A k \in 1..Len(search.attempted) :
           search.attempted[k] = GivenRegions[GroupOfAttempt(k)]
    /\ \A k \in 1..Len(search.errors) :
           /\ (search.errors[k] = ResourcesUnavailable
               /\ k = Len(search.attempted) /\ search.pc = "between")
              => search.idx \in {GroupOfAttempt(k) + 1, 1}
           /\ (search.errors[k] = ResourcesUnavailable
               /\ k < Len(search.attempted))
              => search.attempted[k + 1] =
                     GivenRegions[(GroupOfAttempt(k) % NumGroups) + 1]
           /\ (search.errors[k] \in FatalErrors)
              => /\ k = Len(search.attempted)
                 /\ search.pc = "done"
                 /\ search.result = search.errors[k]

\* C11 witness: the first group was unavailable, the second failed with a
\* credential error, and the call ended with groups left unattempted.
C11_Witness ==
    /\ search.pc = "done"
    /\ search.errors = <<ResourcesUnavailable, "CredentialError">>
    /\ Len(search.groups) > 2
    /\ search.result = "CredentialError"

\* C12: ResourcesUnavailableError reaches the caller only without
\* retry_until_up, and only after every group failed with it; with
\* retry_until_up the loop starts over from the first group after every
\* group failed, and the call ends only with a placement, with an interrupt
\* or with a fatal error.
C12_Exhaustion ==
    /\ (search.result = ResourcesUnavailable)
       => /\ ~search.request.retry_until_up
          /\ search.pc = "done"
          /\ Len(search.errors) = NumGroups
          /\ AllUnavailable(search.errors)
    /\ (search.round > 1)
       => /\ search.request.retry_until_up
          /\ Len(search.errors) >= (search.round - 1) * NumGroups
          /\ AllUnavailable(SubSeq(search.errors, 1,
                                   (search.round - 1) * NumGroups))
          /\ (Len(search.attempted) > (search.round - 1) * NumGroups)
             => search.attempted[(search.round - 1) * NumGroups + 1]
                    = GivenRegions[1]
    /\ (search.request.retry_until_up /\ search.pc = "done")
       => search.result \in {"ok", "KeyboardInterrupt"} \cup FatalErrors

\* C12 witness: with retry_until_up every one of several groups failed, the
\* loop started over and then placed the cluster.
C12_Witness ==
    /\ search.request.retry_until_up
    /\ NumGroups > 1
    /\ search.round = 2
    /\ Len(search.attempted) > NumGroups
    /\ search.result = "ok"

\* C13: an interrupt reaches the caller only when no attempt is under way,
\* and then no remote resource of the search exists; while an attempt is
\* under way the call has not ended.
C13_CancelBetweenAttempts ==
    /\ (search.result = "KeyboardInterrupt")
       => /\ search.cancel
          /\ search.pc = "done"
          /\ Len(search.attempted) = Len(search.errors)
          /\ search.remote = {}
    /\ (Len(search.attempted) > Len(search.errors))
       => search.result = "none"

\* C13 witness: the interrupt came in the middle of an attempt that had
\* created a resource; the call ended with it after tearing the resource down.
C13_Witness ==
    /\ search.result = "KeyboardInterrupt"
    /\ search.signalled_in = "attempting"
    /\ search.cleaned # {}
    /\ search.remote = {}

-----------------------------------------------------------------------------
\* The managed spot job controller: the job table behind spot_queue() and
\* spot_cancel(), and the steps that move a job through its states.

\* Largest retry_count the model lets a job reach.
MaxRetries == 2

\* The ids of the managed jobs of the model, given out in this order.
SpotJobIds == {1, 2}

JobNames == {"train", "eval"}

SpotJobStatus ==
    {"PENDING", "SUBMITTED", "RUNNING", "RECOVERING", "SUCCEEDED", "FAILED",
     "CANCELLED"}

TerminalStatuses == {"SUCCEEDED", "FAILED", "CANCELLED"}

\* A row of the job table, as spot_queue() returns it.
SpotJobRecord(job_name) ==
    [job_name |-> job_name, status |-> "PENDING", retry_count |-> 0]

IsTerminal(job) == job.status \in TerminalStatuses

\* The abstract request a job's cluster is placed from, again on recovery.
RecoveryRequest == [instance_type |-> Some("m6i.2xlarge"), use_spot |-> TRUE]

\* History: a step on the job table or a call of core.py about managed jobs
\* or queries: its arguments, its error, the jobs it addressed with their
\* records before the step.
JobStep(op, err, msg, args, targets) ==
    [op |-> op, err |-> err, msg |-> msg, args |-> args,
     pre |-> [j \in targets |-> spot_jobs[j]]]

NoJobArgs ==
    [name |-> None, job_ids |-> {}, all |-> FALSE, refresh |-> FALSE,
     cluster_name |-> ""]

\* spot.is_spot_controller_up: (None, None) without a controller record, else
\* its status and handle; the head address is known while the controller is UP.
is_spot_controller_up(cs) ==
    IF SPOT_CONTROLLER_NAME \notin DOMAIN cs
    THEN [status |-> None, handle |-> None, head_ip |-> None]
    ELSE [status |-> Some(cs[SPOT_CONTROLLER_NAME].status),
          handle |-> Some(cs[SPOT_CONTROLLER_NAME].handle),
          head_ip |-> IF IsUp(cs[SPOT_CONTROLLER_NAME])
                      THEN Some("head") ELSE None]

ControllerUp ==
    /\ SPOT_CONTROLLER_NAME \in DOMAIN clusters
    /\ IsUp(clusters[SPOT_CONTROLLER_NAME])

JobInit ==
    /\ \E s \in {"UP", "STOPPED"} :
           clusters = [n \in {SPOT_CONTROLLER_NAME} |->
                          [ClusterRecord(s, Handle("CloudVmRayBackend",
                                                   Resources(FALSE, FALSE, 1)))
                           EXCEPT !.autostop =
                               SPOT_CONTROLLER_IDLE_MINUTES_TO_AUTOSTOP]]
    /\ sinceSet = [n \in ClusterNames |-> 0]
    /\ inflight = NoInflight
    /\ firstLaunched = [n \in ClusterNames |-> None]
    /\ last = [op |-> "init", name |-> "", caller_is_owner |-> TRUE,
               err |-> "ok", args |-> NoArgs, pre |-> [n \in {} |-> n],
               ret |-> None, provisioned |-> FALSE]
    /\ search = NoSearch
    /\ spot_jobs = NoSpotJobs
    /\ job_last = [op |-> "init", err |-> "ok", msg |-> "", args |-> NoJobArgs,
                   pre |-> [j \in {} |-> j]]
    /\ procs = NoProcs
    /\ CloudAtRest

\* A managed job is submitted: a new row, PENDING.
spot_submit(job_name) ==
    LET job_id == Cardinality(DOMAIN spot_jobs) + 1 IN
    /\ ControllerUp
    /\ job_id \in SpotJobIds
    /\ spot_jobs' = [j \in (DOMAIN spot_jobs) \cup {job_id} |->
                        IF j = job_id THEN SpotJobRecord(job_name)
                        ELSE spot_jobs[j]]
    /\ job_last' = JobStep("spot_submit", "ok", "", NoJobArgs, {})
    /\ UNCHANGED <<lifecycleVars, searchVars, procVars, cloudVars>>

\* One job changes its status.
SetStatus(job_id, status) ==
    [spot_jobs EXCEPT ![job_id] = [@ EXCEPT !.status = status]]

\* The target cluster accepts the job.
job_accept(job_id) ==
    /\ ControllerUp
    /\ job_id \in DOMAIN spot_jobs
    /\ spot_jobs[job_id].status = "PENDING"
    /\ spot_jobs' = SetStatus(job_id, "SUBMITTED")
    /\ job_last' = JobStep("job_accept", "ok", "", NoJobArgs, {job_id})
    /\ UNCHANGED <<lifecycleVars, searchVars, procVars, cloudVars>>

\* Execution of the job begins.
job_run(job_id) ==
    /\ ControllerUp
    /\ job_id \in DOMAIN spot_jobs
    /\ spot_jobs[job_id].status = "SUBMITTED"
    /\ spot_jobs' = SetStatus(job_id, "RUNNING")
    /\ job_last' = JobStep("job_run", "ok", "", NoJobArgs, {job_id})
    /\ UNCHANGED <<lifecycleVars, searchVars, procVars, cloudVars>>

\* The job ends by itself.
job_finish(job_id, status) ==
    /\ ControllerUp
    /\ job_id \in DOMAIN spot_jobs
    /\ spot_jobs[job_id].status = "RUNNING"
    /\ status \in {"SUCCEEDED", "FAILED"}
    /\ spot_jobs' = SetStatus(job_id, status)
    /\ job_last' = JobStep("job_finish", "ok", "", NoJobArgs, {job_id})
    /\ UNCHANGED <<lifecycleVars, searchVars, procVars, cloudVars>>

\* The controller detects the preemption of a running job: the job is
\* RECOVERING, its retry_count one more, and the failover loop is entered
\* for the same request.  One recovery is under way at a time.
job_preempt(job_id) ==
    /\ ControllerUp
    /\ job_id \in DOMAIN spot_jobs
    /\ spot_jobs[job_id].status = "RUNNING"
    /\ spot_jobs[job_id].retry_count < MaxRetries
    /\ search.pc = "idle"
    /\ spot_jobs' = [spot_jobs EXCEPT ![job_id] =
                        [@ EXCEPT !.status = "RECOVERING",
                                  !.retry_count = @ + 1]]
    /\ search' = StartSearch(RecoveryRequest.instance_type,
                             RecoveryRequest.use_spot, FALSE)
    /\ job_last' = JobStep("job_preempt", "ok", "", NoJobArgs, {job_id})
    /\ UNCHANGED <<lifecycleVars, procVars, cloudVars>>

\* The failover search of the recovery placed a cluster: the job runs again.
recovery_done(job_id) ==
    /\ ControllerUp
    /\ job_id \in DOMAIN spot_jobs
    /\ spot_jobs[job_id].status = "RECOVERING"
    /\ search.pc = "done"
    /\ search.result = "ok"
    /\ spot_jobs' = SetStatus(job_id, "RUNNING")
    /\ search' = NoSearch
    /\ job_last' = JobStep("recovery_done", "ok", "", NoJobArgs, {job_id})
    /\ UNCHANGED <<lifecycleVars, procVars, cloudVars>>

\* As recovery_retry, counting the restart as a retry of the job.
recovery_retry_Counting(job_id) ==
    /\ ControllerUp
    /\ job_id \in DOMAIN spot_jobs
    /\ spot_jobs[job_id].status = "RECOVERING"
    /\ search.pc = "done"
    /\ search.result = ResourcesUnavailable
    /\ search.round < MaxRounds
    /\ spot_jobs' = [spot_jobs EXCEPT ![job_id] =
                        [@ EXCEPT !.retry_count = @ + 1]]
    /\ search' = [StartSearch(RecoveryRequest.instance_type,
                              RecoveryRequest.use_spot, FALSE)
                  EXCEPT !.round = search.round + 1]
    /\ job_last' = JobStep("recovery_retry", "ok", "", NoJobArgs, {job_id})
    /\ UNCHANGED <<lifecycleVars, procVars, cloudVars>>

\* The failover search of the recovery went through every group: within the
\* same recovery, the group list is gone through again.
recovery_retry(job_id) ==
    /\ ControllerUp
    /\ job_id \in DOMAIN spot_jobs
    /\ spot_jobs[job_id].status = "RECOVERING"
    /\ search.pc = "done"
    /\ search.result = ResourcesUnavailable
    /\ search.round < MaxRounds
    /\ UNCHANGED spot_jobs
    /\ search' = [StartSearch(RecoveryRequest.instance_type,
                              RecoveryRequest.use_spot, FALSE)
                  EXCEPT !.round = search.round + 1]
    /\ job_last' = JobStep("recovery_retry", "ok", "", NoJobArgs, {job_id})
    /\ UNCHANGED <<lifecycleVars, procVars, cloudVars>>

\* As recovery_give_up, taken while the failover search is still going on.
recovery_give_up_Early(job_id) ==
    /\ ControllerUp
    /\ job_id \in DOMAIN spot_jobs
    /\ spot_jobs[job_id].status = "RECOVERING"
    /\ search.pc \in {"between", "done"}
    /\ search.result # "ok"
    /\ spot_jobs' = SetStatus(job_id, "FAILED")
    /\ search' = NoSearch
    /\ job_last' = JobStep("recovery_give_up", "ok", "", NoJobArgs, {job_id})
    /\ UNCHANGED <<lifecycleVars, procVars, cloudVars>>

\* The failover search of the recovery is exhausted: the job is FAILED.
recovery_give_up(job_id) ==
    /\ ControllerUp
    /\ job_id \in DOMAIN spot_jobs
    /\ spot_jobs[job_id].status = "RECOVERING"
    /\ search.pc = "done"
    /\ search.result = ResourcesUnavailable
    /\ spot_jobs' = SetStatus(job_id, "FAILED")
    /\ search' = NoSearch
    /\ job_last' = JobStep("recovery_give_up", "ok", "", NoJobArgs, {job_id})
    /\ UNCHANGED <<lifecycleVars, procVars, cloudVars>>

-----------------------------------------------------------------------------
\* spot_cancel(): sky/core.py and the controller-side code it runs.

\* What the controller prints when a cancel by name finds several jobs, none,
\* or has done its work.
MultipleJobsFound == "Multiple jobs found with name"

NoJobFound == "No job found with name"

CancelScheduled == "scheduled to be cancelled"

\* As CancelIds, cancelling jobs that have ended too.
CancelIds_Ended(jobs, job_ids) ==
    { j \in DOMAIN jobs : job_ids = None \/ j \in TheValue(job_ids) }

\* The ids of the jobs a cancel by id moves: all of the table for None,
\* else those named; jobs that have ended are left alone.
CancelIds(jobs, job_ids) ==
    { j \in DOMAIN jobs :
        /\ ~IsTerminal(jobs[j])
        /\ (job_ids = None \/ j \in TheValue(job_ids)) }

\* spot_utils.cancel_jobs_by_id, as run on the controller.
cancel_jobs_by_id(jobs, job_ids) ==
    [jobs |-> [j \in DOMAIN jobs |->
                  IF j \in CancelIds(jobs, job_ids)
                  THEN [jobs[j] EXCEPT !.status = "CANCELLED"]
                  ELSE jobs[j]],
     stdout |-> CancelScheduled]

\* The jobs a name matches: those of that name that have not ended.
JobsNamed(jobs, job_name) ==
    { j \in DOMAIN jobs : jobs[j].job_name = job_name /\ ~IsTerminal(jobs[j]) }

\* spot_utils.cancel_job_by_name, as run on the controller: cancels the one
\* job the name matches; reports it when there is none or more than one.
cancel_job_by_name(jobs, job_name) ==
    LET matched == JobsNamed(jobs, job_name) IN
    IF matched = {} THEN [jobs |-> jobs, stdout |-> NoJobFound]
    ELSE IF Cardinality(matched) > 1
    THEN [jobs |-> jobs, stdout |-> MultipleJobsFound]
    ELSE cancel_jobs_by_id(jobs, Some(matched))

\* spot_cancel() up to the command it runs on the controller.
spot_cancel_check(cs, name, job_ids, all) ==
    LET c == is_spot_controller_up(cs)
        given == (IF job_ids # {} THEN 1 ELSE 0)
                 + (IF name # None THEN 1 ELSE 0)
                 + (IF all THEN 1 ELSE 0)
    IN
    IF c.handle = None \/ c.head_ip = None THEN "ClusterNotUpError"
    ELSE IF given # 1 THEN "ValueError"
    ELSE "run"

\* As spot_cancel_code, cancelling by id although a name was given.
spot_cancel_code_IgnoreName(jobs, name, job_ids, all) ==
    IF all THEN cancel_jobs_by_id(jobs, None)
    ELSE cancel_jobs_by_id(jobs, Some(job_ids))

\* The command spot_cancel() runs: every job for all, the given ids, or the
\* job of the given name.
spot_cancel_code(jobs, name, job_ids, all) ==
    IF all THEN cancel_jobs_by_id(jobs, None)
    ELSE IF job_ids # {} THEN cancel_jobs_by_id(jobs, Some(job_ids))
    ELSE cancel_job_by_name(jobs, TheValue(name))

\* As spot_cancel_result, without the test of the output.
spot_cancel_result_Unchecked(stdout) == [err |-> "ok", msg |-> ""]

\* The end of spot_cancel(): the output of the command is printed, and an
\* output that reports several jobs of the name raises RuntimeError.
spot_cancel_result(stdout) ==
    IF stdout = MultipleJobsFound
    THEN [err |-> "RuntimeError",
          msg |-> "Please specify the job ID instead of the job name."]
    ELSE [err |-> "ok", msg |-> ""]

\* The jobs a call of spot_cancel() is about.
Addressed(jobs, name, job_ids, all) ==
    { j \in DOMAIN jobs :
        \/ all
        \/ j \in job_ids
        \/ (name # None /\ jobs[j].job_name = TheValue(name)) }

\* spot_cancel() up to backend.run_on_head: spot.is_spot_controller_up and
\* the tests on its result and on the arguments; the call raises, or goes on
\* with the handle it got.  The model follows one call of spot_cancel() at a
\* time.
spot_cancel(name, job_ids, all) ==
    LET chk == spot_cancel_check(clusters, name, job_ids, all)
        args == [NoJobArgs EXCEPT !.name = name, !.job_ids = job_ids,
                                  !.all = all]
        targets == Addressed(spot_jobs, name, job_ids, all)
    IN
    /\ inflight.spot_cancel = None
    /\ inflight' = IF chk = "run"
                   THEN [inflight EXCEPT !.spot_cancel =
                           Some([name |-> name, job_ids |-> job_ids,
                                 all |-> all,
                                 seen |-> TheValue(
                                     is_spot_controller_up(clusters).handle)])]
                   ELSE inflight
    /\ job_last' = JobStep("spot_cancel", IF chk = "run" THEN "ok" ELSE chk,
                           "is_spot_controller_up", args, targets)
    /\ UNCHANGED <<clusters, sinceSet, firstLaunched, last, searchVars, spot_jobs, procVars, cloudVars>>

\* backend.run_on_head of spot_cancel(), with the handle the call got: the
\* command runs on the job table as it is by now; a command that fails
\* raises RuntimeError, otherwise its output is examined; the call ends.
spot_cancel_run(returncode) ==
    /\ inflight.spot_cancel # None
    /\ LET c == TheValue(inflight.spot_cancel)
           args == [NoJobArgs EXCEPT !.name = c.name, !.job_ids = c.job_ids,
                                     !.all = c.all]
           targets == Addressed(spot_jobs, c.name, c.job_ids, c.all)
       IN
       /\ inflight' = [inflight EXCEPT !.spot_cancel = None]
       /\ IF returncode # 0
          THEN /\ UNCHANGED <<spot_jobs, search>>
               /\ job_last' = JobStep("spot_cancel_run", "RuntimeError",
                                      "Failed to cancel managed spot job",
                                      args, targets)
          ELSE LET ran == spot_cancel_code(spot_jobs, c.name, c.job_ids, c.all)
                   res == spot_cancel_result(ran.stdout)
               IN
               /\ spot_jobs' = ran.jobs
               /\ search' = IF \E j \in DOMAIN spot_jobs :
                                   /\ spot_jobs[j].status = "RECOVERING"
                                   /\ ran.jobs[j].status # "RECOVERING"
                            THEN NoSearch ELSE search
               /\ job_last' = JobStep("spot_cancel_run", res.err, res.msg,
                                      args, targets)
    /\ UNCHANGED <<clusters, sinceSet, firstLaunched, last, procVars, cloudVars>>

-----------------------------------------------------------------------------
\* The queries of sky/core.py.

QueryOps == {"status", "queue", "job_status", "spot_queue"}

\* status(): the cluster records, as backend_utils.get_clusters reads them.
status(refresh) ==
    /\ job_last' = JobStep("status", "ok", "",
                           [NoJobArgs EXCEPT !.refresh = refresh], {})
    /\ UNCHANGED <<lifecycleVars, searchVars, spot_jobs, procVars, cloudVars>>

\* No query that waits twice is in flight: the model follows one query at
\* a time, while other callers and the cluster side take their steps.
NoQueryInFlight ==
    /\ inflight.spot_queue = None
    /\ inflight.queue = None
    /\ inflight.job_status = None

\* queue() up to backend.run_on_head: check_cluster_available raises, or the
\* call goes on with the handle it got (seen).
queue(cluster_name) ==
    LET a == check_cluster_available(clusters, cluster_name, TRUE) IN
    /\ NoQueryInFlight
    /\ inflight' = IF a.err = "ok"
                   THEN [inflight EXCEPT !.queue =
                           Some([name |-> cluster_name,
                                 seen |-> TheValue(a.handle)])]
                   ELSE inflight
    /\ job_last' = JobStep("queue", a.err, "check_cluster_available",
                           [NoJobArgs EXCEPT !.cluster_name = cluster_name],
                           {})
    /\ UNCHANGED <<clusters, sinceSet, firstLaunched, last, searchVars, spot_jobs, procVars, cloudVars>>

\* backend.run_on_head of queue(), with the handle the call got: the call
\* returns the job queue, or raises when the command has failed.
queue_run(returncode) ==
    /\ inflight.queue # None
    /\ LET c == TheValue(inflight.queue) IN
       /\ inflight' = [inflight EXCEPT !.queue = None]
       /\ job_last' = JobStep("queue",
                              IF returncode # 0 THEN "RuntimeError" ELSE "ok",
                              "run_on_head",
                              [NoJobArgs EXCEPT !.cluster_name = c.name], {})
    /\ UNCHANGED <<clusters, sinceSet, firstLaunched, last, searchVars, spot_jobs, procVars, cloudVars>>

\* job_status() up to backend.get_job_status: check_cluster_available
\* raises; with an empty list of job ids the call returns the empty list;
\* otherwise (job_ids None or some ids) the call goes on with the handle it
\* got.
job_status(cluster_name, job_ids) ==
    LET a == check_cluster_available(clusters, cluster_name, TRUE) IN
    /\ NoQueryInFlight
    /\ inflight' = IF a.err = "ok" /\ job_ids # Some({})
                   THEN [inflight EXCEPT !.job_status =
                           Some([name |-> cluster_name,
                                 seen |-> TheValue(a.handle)])]
                   ELSE inflight
    /\ job_last' = JobStep("job_status", a.err, "check_cluster_available",
                           [NoJobArgs EXCEPT !.cluster_name = cluster_name],
                           {})
    /\ UNCHANGED <<clusters, sinceSet, firstLaunched, last, searchVars, spot_jobs, procVars, cloudVars>>

\* backend.get_job_status of job_status(), with the handle the call got: the
\* call returns the statuses.
job_status_get ==
    /\ inflight.job_status # None
    /\ LET c == TheValue(inflight.job_status) IN
       /\ inflight' = [inflight EXCEPT !.job_status = None]
       /\ job_last' = JobStep("job_status", "ok", "get_job_status",
                              [NoJobArgs EXCEPT !.cluster_name = c.name], {})
    /\ UNCHANGED <<clusters, sinceSet, firstLaunched, last, searchVars, spot_jobs, procVars, cloudVars>>

\* As spot_queue_check, restarting the controller without refresh too.
spot_queue_check_RestartAlways(cs, refresh) ==
    LET c == is_spot_controller_up(cs) IN
    IF c.status = None THEN "empty"
    ELSE IF TheValue(c.status) \in {"STOPPED", "INIT"} THEN "restart"
    ELSE IF c.handle = None \/ c.head_ip = None THEN "ClusterNotUpError"
    ELSE "run"

\* spot_queue() up to where it restarts the controller or reads the table.
spot_queue_check(cs, refresh) ==
    LET c == is_spot_controller_up(cs) IN
    IF c.status = None THEN "empty"
    ELSE IF refresh /\ TheValue(c.status) \in {"STOPPED", "INIT"}
    THEN "restart"
    ELSE IF c.handle = None \/ c.head_ip = None THEN "ClusterNotUpError"
    ELSE "run"

\* A call of spot_queue() in flight and the handle it holds: pc is "checked"
\* after spot.is_spot_controller_up when the controller is to be restarted,
\* "read", "provisioning" and "provisioned" inside _start() as for start(), and "started"
\* before backend.run_on_head.
SpotQueueCall(refresh, handle, pc) ==
    [refresh |-> refresh, seen |-> handle, pc |-> pc]

\* The call of _start() that spot_queue() makes.
SpotQueueStart(handle) ==
    StartCall(SPOT_CONTROLLER_NAME, None, FALSE, FALSE, FALSE, handle)

\* spot_queue() up to the end of spot.is_spot_controller_up and the tests
\* on its result: the call returns the empty list, raises, or goes on to
\* restart the controller or to read the job table.  The model follows one
\* call of spot_queue() at a time.
spot_queue(refresh) ==
    LET chk == spot_queue_check(clusters, refresh)
        c == is_spot_controller_up(clusters)
    IN
    /\ NoQueryInFlight
    /\ inflight' = IF chk \in {"restart", "run"}
                   THEN [inflight EXCEPT !.spot_queue =
                           Some(SpotQueueCall(refresh, TheValue(c.handle),
                                              IF chk = "restart"
                                              THEN "checked" ELSE "started"))]
                   ELSE inflight
    /\ job_last' = JobStep("spot_queue",
                           IF chk \in {"empty", "restart", "run"}
                           THEN "ok" ELSE chk,
                           "is_spot_controller_up",
                           [NoJobArgs EXCEPT !.refresh = refresh], {})
    /\ UNCHANGED <<clusters, sinceSet, firstLaunched, last, searchVars, spot_jobs, procVars, cloudVars>>

\* spot_queue() enters _start(SPOT_CONTROLLER_NAME): the record is read
\* again.  _start() raises when the record is gone; when the controller is
\* UP by now it returns None, on which spot_queue() raises ClusterNotUpError.
spot_queue_start ==
    /\ inflight.spot_queue # None
    /\ LET c == TheValue(inflight.spot_queue)
           chk == _start_check(clusters, SPOT_CONTROLLER_NAME, None, FALSE,
                               FALSE, TRUE)
       IN
       /\ c.pc = "checked"
       /\ inflight' = [inflight EXCEPT !.spot_queue =
                         IF chk = "provision"
                         THEN Some([c EXCEPT
                                      !.pc = "read",
                                      !.seen = clusters[SPOT_CONTROLLER_NAME].handle])
                         ELSE None]
       /\ job_last' = JobStep("spot_queue",
                              IF chk = "provision" THEN "ok"
                              ELSE IF chk = "already_up" THEN "ClusterNotUpError"
                              ELSE chk,
                              "_start",
                              [NoJobArgs EXCEPT !.refresh = c.refresh], {})
    /\ UNCHANGED <<clusters, sinceSet, firstLaunched, last, searchVars, spot_jobs, procVars, cloudVars>>

\* The _start() that spot_queue() has called enters backend.provision: the
\* controller's record is marked INIT.
spot_queue_provision_mark ==
    /\ inflight.spot_queue # None
    /\ LET c == TheValue(inflight.spot_queue) IN
       /\ c.pc = "read"
       /\ clusters' = provision_mark_init(clusters,
                                                    SPOT_CONTROLLER_NAME,
                                                    c.seen)
       /\ sinceSet' = SinceSetAfter(clusters, clusters')
       /\ inflight' = [inflight EXCEPT !.spot_queue =
                         Some([c EXCEPT !.pc = "provisioning"])]
       /\ job_last' = JobStep("spot_queue", "ok", "provision_mark",
                              [NoJobArgs EXCEPT !.refresh = c.refresh], {})
    /\ UNCHANGED <<firstLaunched, last, searchVars, spot_jobs, procVars, cloudVars>>

\* backend.provision of the _start() that spot_queue() has called ends.
spot_queue_provision(outcome) ==
    /\ inflight.spot_queue # None
    /\ LET c == TheValue(inflight.spot_queue)
           provisioned == start_provisioned(SpotQueueStart(c.seen), outcome)
       IN
       /\ c.pc = "provisioning"
       /\ clusters' = provision_by_handle(clusters, SPOT_CONTROLLER_NAME,
                                          c.seen, start_to_provision(c.seen),
                                          outcome)
       /\ sinceSet' = SinceSetAfter(clusters, clusters')
       /\ inflight' = [inflight EXCEPT !.spot_queue =
                         IF provisioned # None
                         THEN Some([c EXCEPT !.pc = "provisioned"])
                         ELSE IF outcome = "ok"
                         THEN Some([c EXCEPT !.pc = "started"])
                         ELSE None]
       /\ job_last' = JobStep("spot_queue", outcome, "provision",
                              [NoJobArgs EXCEPT !.refresh = c.refresh], {})
    /\ UNCHANGED <<firstLaunched, last, searchVars, spot_jobs, procVars, cloudVars>>

\* backend.set_autostop of the _start() that spot_queue() has called;
\* _start() returns the handle.
spot_queue_set_autostop ==
    /\ inflight.spot_queue # None
    /\ LET c == TheValue(inflight.spot_queue)
           idle == start_idle_minutes(SPOT_CONTROLLER_NAME, None)
       IN
       /\ c.pc = "provisioned"
       /\ clusters' = set_autostop_by_handle(clusters, SPOT_CONTROLLER_NAME,
                                             TheValue(idle), FALSE)
       /\ sinceSet' = SinceSetAfter(clusters, clusters')
       /\ inflight' = [inflight EXCEPT !.spot_queue =
                         Some([c EXCEPT !.pc = "started"])]
       /\ job_last' = JobStep("spot_queue", "ok", "set_autostop",
                              [NoJobArgs EXCEPT !.refresh = c.refresh], {})
    /\ UNCHANGED <<firstLaunched, last, searchVars, spot_jobs, procVars, cloudVars>>

\* backend.run_on_head of spot_queue(): the job table is read on the
\* controller; the call returns it, or raises when the command has failed.
spot_queue_run(returncode) ==
    /\ inflight.spot_queue # None
    /\ LET c == TheValue(inflight.spot_queue) IN
       /\ c.pc = "started"
       /\ inflight' = [inflight EXCEPT !.spot_queue = None]
       /\ job_last' = JobStep("spot_queue",
                              IF returncode # 0 THEN "RuntimeError" ELSE "ok",
                              "run_on_head",
                              [NoJobArgs EXCEPT !.refresh = c.refresh], {})
    /\ UNCHANGED <<clusters, sinceSet, firstLaunched, last, searchVars, spot_jobs, procVars, cloudVars>>

-----------------------------------------------------------------------------

\* The calls of spot_cancel() the model makes: each way of naming jobs, and
\* two calls whose arguments are rejected.
SpotCancelCalls ==
    { [name |-> None, job_ids |-> {}, all |-> TRUE] }
    \cup { [name |-> None, job_ids |-> ids, all |-> FALSE] :
             ids \in (SUBSET SpotJobIds) \ {{}} }
    \cup { [name |-> Some(n), job_ids |-> {}, all |-> FALSE] : n \in JobNames }
    \cup { [name |-> None, job_ids |-> {}, all |-> FALSE],
           [name |-> Some("train"), job_ids |-> {}, all |-> TRUE] }

\* The job controller, spot_cancel() with its steps, and beside them
\* another caller that tears the controller down.
JobNext ==
    \/ \E n \in JobNames : spot_submit(n)
    \/ \E j \in SpotJobIds : job_accept(j)
    \/ \E j \in SpotJobIds : job_run(j)
    \/ \E j \in SpotJobIds, st \in {"SUCCEEDED", "FAILED"} : job_finish(j, st)
    \/ \E j \in SpotJobIds : job_preempt(j)
    \/ (search.pc # "idle" /\ attempt_begin)
    \/ (search.pc # "idle" /\ attempt_succeed)
    \/ (search.pc # "idle" /\ attempt_fail(ResourcesUnavailable))
    \/ (search.pc # "idle" /\ exhausted)
    \/ \E j \in SpotJobIds : recovery_done(j)
    \/ \E j \in SpotJobIds : recovery_retry(j)
    \/ \E j \in SpotJobIds : recovery_give_up(j)
    \/ \E c \in SpotCancelCalls : spot_cancel(c.name, c.job_ids, c.all)
    \/ \E rc \in {0, 1} : spot_cancel_run(rc)
    \/ \E n \in {SPOT_CONTROLLER_NAME} \cap DOMAIN clusters : down(n, FALSE)

JobSpec == JobInit /\ [][JobNext]_vars

\* The queries, on every table of one cluster and a job table of the
\* controller.
QueryJobTables ==
    { NoSpotJobs,
      [j \in {1} |-> [SpotJobRecord("train") EXCEPT !.status = "RUNNING"]],
      [j \in {1, 2} |->
          IF j = 1
          THEN [SpotJobRecord("train") EXCEPT !.status = "SUCCEEDED",
                                             !.retry_count = 1]
          ELSE [SpotJobRecord("eval") EXCEPT !.status = "RECOVERING",
                                            !.retry_count = 1]] }

QueryInit ==
    /\ clusters \in InitTables
    /\ sinceSet = [n \in ClusterNames |-> 0]
    /\ inflight = NoInflight
    /\ firstLaunched = [n \in ClusterNames |-> None]
    /\ last = [op |-> "init", name |-> "", caller_is_owner |-> TRUE,
               err |-> "ok", args |-> NoArgs, pre |-> [n \in {} |-> n],
               ret |-> None, provisioned |-> FALSE]
    /\ search = NoSearch
    /\ spot_jobs \in IF SPOT_CONTROLLER_NAME \in DOMAIN clusters
                     THEN QueryJobTables ELSE {NoSpotJobs}
    /\ job_last = [op |-> "init", err |-> "ok", msg |-> "", args |-> NoJobArgs,
                   pre |-> [j \in {} |-> j]]
    /\ procs = NoProcs
    /\ CloudAtRest

\* The job ids a caller of job_status() gives: none, an empty list, an id.
OptJobIds == {None, Some({}), Some({1})}

\* The queries, and beside them the steps of other callers and of the
\* cluster side on the spot controller: start() with its steps, down(), and
\* the controller's idle monitor.
QueryNext ==
    \/ \E r \in BOOLEAN : status(r)
    \/ \E n \in ClusterNames : queue(n)
    \/ \E rc \in {0, 1} : queue_run(rc)
    \/ \E n \in ClusterNames, ids \in OptJobIds : job_status(n, ids)
    \/ job_status_get
    \/ \E r \in BOOLEAN : spot_queue(r)
    \/ spot_queue_start
    \/ spot_queue_provision_mark
    \/ \E out \in ProvisionOutcomes(FALSE) : spot_queue_provision(out)
    \/ spot_queue_set_autostop
    \/ \E rc \in {0, 1} : spot_queue_run(rc)
    \/ \E f \in BOOLEAN :
          start(SPOT_CONTROLLER_NAME, None, FALSE, FALSE, f, TRUE)
    \/ start_provision_mark
    \/ \E out \in ProvisionOutcomes(FALSE) : start_provision(out)
    \/ start_set_autostop
    \/ down(SPOT_CONTROLLER_NAME, FALSE)
    \/ tick(SPOT_CONTROLLER_NAME)
    \/ autostop_event(SPOT_CONTROLLER_NAME)

QuerySpec == QueryInit /\ [][QueryNext]_vars

-----------------------------------------------------------------------------
\* Properties of the managed job controller.

\* The status changes of the job state machine.
JobTransitions ==
    { <<"PENDING", "SUBMITTED">>, <<"SUBMITTED", "RUNNING">>,
      <<"RUNNING", "SUCCEEDED">>, <<"RUNNING", "FAILED">>,
      <<"RUNNING", "RECOVERING">>, <<"RECOVERING", "RUNNING">>,
      <<"RECOVERING", "FAILED">> }
    \cup { <<st, "CANCELLED">> : st \in SpotJobStatus \ TerminalStatuses }

\* C14: a job's status changes only along the job state machine, a new job
\* is PENDING, no job leaves the table, and the status of a job that is
\* SUCCEEDED, FAILED or CANCELLED never changes.
C14_JobStateMachine ==
    [][ /\ \A j \in DOMAIN spot_jobs :
              /\ j \in DOMAIN spot_jobs'
              /\ (spot_jobs'[j].status # spot_jobs[j].status)
                 => <<spot_jobs[j].status, spot_jobs'[j].status>>
                        \in JobTransitions
              /\ IsTerminal(spot_jobs[j])
                 => spot_jobs'[j].status = spot_jobs[j].status
        /\ \A j \in (DOMAIN spot_jobs') \ (DOMAIN spot_jobs) :
              spot_jobs'[j].status = "PENDING" ]_vars

\* C14 witness: a job went through a recovery and ended SUCCEEDED, while
\* another job was cancelled.
C14_Witness ==
    /\ \E j \in DOMAIN spot_jobs :
          spot_jobs[j].status = "SUCCEEDED" /\ spot_jobs[j].retry_count > 0
    /\ \E j \in DOMAIN spot_jobs : spot_jobs[j].status = "CANCELLED"

\* C15: retry_count grows by one in the step that takes a job from RUNNING
\* to RECOVERING, and changes in no other step.
C15_RetryCountOnPreemption ==
    [][ \A j \in (DOMAIN spot_jobs) \cap (DOMAIN spot_jobs') :
          /\ (spot_jobs[j].status = "RUNNING"
              /\ spot_jobs'[j].status = "RECOVERING")
             => spot_jobs'[j].retry_count = spot_jobs[j].retry_count + 1
          /\ (spot_jobs'[j].retry_count # spot_jobs[j].retry_count)
             => /\ spot_jobs[j].status = "RUNNING"
                /\ spot_jobs'[j].status = "RECOVERING" ]_vars

\* C15 witness: within one recovery the failover search went through the
\* group list, started over and is at its second group; the job's
\* retry_count is still the one of the preemption.
C15_Witness ==
    /\ search.pc = "attempting"
    /\ search.round = 2
    /\ search.idx = 2
    /\ \E j \in DOMAIN spot_jobs :
          spot_jobs[j].status = "RECOVERING" /\ spot_jobs[j].retry_count = 1

\* C16: a RECOVERING job becomes RUNNING only when the failover search has
\* placed a cluster, and FAILED (otherwise than by itself ending) only when
\* the search has gone through every group without a placement; the
\* retry_count of a FAILED job stays as it is.
C16_RecoveryOutcome ==
    [][ \A j \in (DOMAIN spot_jobs) \cap (DOMAIN spot_jobs') :
          /\ (spot_jobs[j].status = "RECOVERING"
              /\ spot_jobs'[j].status = "RUNNING")
             => (search.pc = "done" /\ search.result = "ok")
          /\ (spot_jobs[j].status = "RECOVERING"
              /\ spot_jobs'[j].status = "FAILED")
             => /\ search.pc = "done"
                /\ search.result = ResourcesUnavailable
                /\ Len(search.errors) = Len(search.groups)
                /\ AllUnavailable(search.errors)
          /\ (spot_jobs[j].status = "FAILED")
             => spot_jobs'[j] = spot_jobs[j] ]_vars

\* C16 witness: a recovery went through the group list more than once and
\* the job is FAILED with the retry_count of its preemptions.
C16_Witness ==
    /\ job_last.op = "recovery_give_up"
    /\ \E j \in DOMAIN job_last.pre :
          /\ job_last.pre[j].status = "RECOVERING"
          /\ spot_jobs[j].status = "FAILED"
          /\ spot_jobs[j].retry_count = MaxRetries

\* The jobs of the last call that had not ended before it.
LiveBefore == { j \in DOMAIN job_last.pre : ~IsTerminal(job_last.pre[j]) }

\* C17: after an accepted spot_cancel() every job the call is about that
\* was PENDING, SUBMITTED, RUNNING or RECOVERING is CANCELLED, with its other
\* fields as they were, and every job that was CANCELLED (or had ended
\* otherwise) has its record unchanged.
C17_CancelIdempotent ==
    (job_last.op = "spot_cancel_run" /\ job_last.err = "ok") =>
        /\ DOMAIN job_last.pre =
               Addressed(spot_jobs, job_last.args.name, job_last.args.job_ids,
                         job_last.args.all)
        /\ \A j \in DOMAIN job_last.pre :
              IF IsTerminal(job_last.pre[j])
              THEN spot_jobs[j] = job_last.pre[j]
              ELSE spot_jobs[j] =
                       [job_last.pre[j] EXCEPT !.status = "CANCELLED"]
        /\ \A j \in (DOMAIN spot_jobs) \ (DOMAIN job_last.pre) :
              job_last.args.name # None
              => spot_jobs[j].job_name # TheValue(job_last.args.name)

\* C17 witness: one spot_cancel() was about a job that was RECOVERING and a
\* job that was already CANCELLED.
C17_Witness ==
    /\ job_last.op = "spot_cancel_run"
    /\ job_last.err = "ok"
    /\ \E j \in DOMAIN job_last.pre, k \in DOMAIN job_last.pre :
          /\ job_last.pre[j].status = "RECOVERING"
          /\ spot_jobs[j].status = "CANCELLED"
          /\ job_last.pre[k].status = "CANCELLED"

\* spot_cancel() was called with a name alone, has passed its checks, and
\* the command ran.
CancelByNameRan ==
    /\ job_last.op = "spot_cancel_run"
    /\ job_last.args.name # None
    /\ job_last.args.job_ids = {}
    /\ ~job_last.args.all
    /\ job_last.msg # "Failed to cancel managed spot job"

\* C18: spot_cancel() by a name that matches more than one job raises the
\* error that asks for the job id.
C18_AmbiguousName ==
    (CancelByNameRan /\ Cardinality(LiveBefore) > 1) =>
        /\ job_last.err = "RuntimeError"
        /\ job_last.msg = "Please specify the job ID instead of the job name."

\* C18 witness: spot_cancel() by name found two jobs of the name and raised.
C18_Witness ==
    /\ CancelByNameRan
    /\ Cardinality(LiveBefore) = 2
    /\ job_last.err = "RuntimeError"

-----------------------------------------------------------------------------
\* Properties of the queries.

ControllerStatus(cs) ==
    IF SPOT_CONTROLLER_NAME \in DOMAIN cs
    THEN cs[SPOT_CONTROLLER_NAME].status ELSE "NONE"

\* A step of a query: the history of queries has a new entry.
QueryStep == job_last' # job_last /\ job_last'.op \in QueryOps

\* C19 as stated: a query leaves every cluster record and every job record
\* as it was.
C19_QueriesDoNotMutate ==
    [][ QueryStep => (clusters' = clusters /\ spot_jobs' = spot_jobs) ]_vars

\* C19 as amended: a query leaves every job record as it was, and every
\* cluster record too, except that spot_queue() with refresh, having found
\* the controller STOPPED or INIT, starts it again through _start():
\* backend.provision marks the controller's record INIT and makes it UP, or
\* leaves it INIT when it fails, and leaves its autostop setting; after a
\* provisioning that has returned, backend.set_autostop stores the default setting in the
\* controller's record.  No record of another cluster changes.
C19_QueriesRestartController ==
    [][ QueryStep =>
          /\ spot_jobs' = spot_jobs
          /\ (clusters' # clusters)
             => /\ job_last'.op = "spot_queue"
                /\ job_last'.args.refresh
                /\ job_last'.msg \in {"provision_mark", "provision",
                                       "set_autostop"}
                /\ \A n \in ClusterNames \ {SPOT_CONTROLLER_NAME} :
                      RecordOf(clusters', n) = RecordOf(clusters, n)
                /\ SPOT_CONTROLLER_NAME \in DOMAIN clusters'
                /\ (job_last'.msg \in {"provision_mark", "provision"})
                   => /\ ControllerStatus(clusters') =
                            IF job_last'.msg = "provision" /\ job_last'.err = "ok"
                            THEN "UP" ELSE "INIT"
                      /\ (SPOT_CONTROLLER_NAME \in DOMAIN clusters)
                         => /\ clusters'[SPOT_CONTROLLER_NAME].handle
                                  = clusters[SPOT_CONTROLLER_NAME].handle
                            /\ clusters'[SPOT_CONTROLLER_NAME].autostop
                                  = clusters[SPOT_CONTROLLER_NAME].autostop
                            /\ clusters'[SPOT_CONTROLLER_NAME].to_down
                                  = clusters[SPOT_CONTROLLER_NAME].to_down
                /\ (job_last'.msg = "set_autostop")
                   => /\ SPOT_CONTROLLER_NAME \in DOMAIN clusters
                      /\ clusters'[SPOT_CONTROLLER_NAME].status
                            = clusters[SPOT_CONTROLLER_NAME].status
                      /\ clusters'[SPOT_CONTROLLER_NAME].handle
                            = clusters[SPOT_CONTROLLER_NAME].handle
                      /\ clusters'[SPOT_CONTROLLER_NAME].autostop
                            = SPOT_CONTROLLER_IDLE_MINUTES_TO_AUTOSTOP
                      /\ ~clusters'[SPOT_CONTROLLER_NAME].to_down ]_vars

\* C19 witness: spot_queue() with refresh has provisioned the controller,
\* which holds managed jobs, and is about to set its autostop.
C19_Witness ==
    /\ job_last.op = "spot_queue"
    /\ job_last.args.refresh
    /\ job_last.msg = "provision"
    /\ job_last.err = "ok"
    /\ inflight.spot_queue # None
    /\ TheValue(inflight.spot_queue).pc = "provisioned"
    /\ ControllerStatus(clusters) = "UP"
    /\ spot_jobs # NoSpotJobs

-----------------------------------------------------------------------------
\* Concurrent calls of sky/core.py.  start(), stop() and down() first read
\* the cluster's record and later ask the backend to act on the handle they
\* read, start() with two operations, backend.provision and then
\* backend.set_autostop; core.py takes no lock, so steps of other processes
\* may come in between any two of these.  Each backend operation is one
\* step, except backend.provision, which marks the record INIT in a first
\* step and ends in a second.

ProcIds == {1, 2}

ConcOps == {"start", "stop", "down", "autostop_event"}

\* A call before its first step.
ConcCall(op, cluster_name, force) ==
    [op |-> op, name |-> cluster_name, force |-> force, pc |-> "call",
     seen |-> None, err |-> "ok"]

\* The calls made concurrently: start with and without force, stop, down and
\* the idle monitor's trigger, each on either name.
ConcCalls ==
    { ConcCall("start", n, f) : n \in ClusterNames, f \in BOOLEAN }
    \cup { ConcCall(op, n, FALSE) :
             op \in {"stop", "down", "autostop_event"}, n \in ClusterNames }

\* The records a cluster has when the calls are made: on-demand, without a
\* setting or with one that is due.
ConcRecords ==
    { [ClusterRecord(st, Handle("CloudVmRayBackend", Resources(FALSE, FALSE, 1)))
       EXCEPT !.autostop = a, !.to_down = d] :
      st \in ClusterStatus, a \in {-1, 0}, d \in BOOLEAN }

ConcTables ==
    UNION { [names -> ConcRecords] : names \in SUBSET ClusterNames }

\* The first part of a call: the record is read and the checks are made.
\* The call ends here with an error or as a no-op, or goes on with the
\* handle it has read.
ReadCall(cs, c) ==
    LET chk == IF c.op = "start"
               THEN start_check(cs, c.name, None, FALSE, c.force, TRUE)
               ELSE IF c.op = "stop" THEN stop_check(cs, c.name)
               ELSE down_check(cs, c.name)
    IN
    IF chk \in {"provision", "teardown"}
    THEN [c EXCEPT !.pc = "read",
                   !.seen = get_handle_from_cluster_name(cs, c.name)]
    ELSE [c EXCEPT !.pc = "done",
                   !.err = IF chk = "already_up" THEN "ok" ELSE chk]

\* The call of _start() a process makes.
ConcStart(c) == StartCall(c.name, None, FALSE, FALSE, c.force, TheValue(c.seen))

\* The second part of a call: the backend acts on the handle read before,
\* backend.provision (ending, the record marked INIT before) for start(),
\* backend.teardown for stop() and down().
ActCall(cs, c, outcome) ==
    LET handle == TheValue(c.seen) IN
    IF c.op = "start"
    THEN provision_by_handle(cs, c.name, handle, start_to_provision(handle),
                             outcome)
    ELSE teardown_by_handle(cs, c.name, c.op = "down")

\* Where a call is after its second part: start() goes on to
\* backend.set_autostop as _start() does, every other call has ended.
ActedCall(c, outcome) ==
    IF c.op = "start" /\ start_provisioned(ConcStart(c), outcome) # None
    THEN [c EXCEPT !.pc = "provisioned"]
    ELSE [c EXCEPT !.pc = "done", !.err = outcome]

\* The third part of start(): backend.set_autostop with the setting of
\* _start().
SetAutostopCall(cs, c) ==
    set_autostop_by_handle(cs, c.name,
                           TheValue(start_idle_minutes(c.name, None)), FALSE)

\* The idle monitor's trigger, in one step on the cluster.
MonitorCall(cs, c) ==
    IF c.name \in DOMAIN cs /\ autostop_due(cs[c.name])
    THEN teardown(cs, c.name, cs[c.name].to_down, FALSE)
    ELSE cs

ConcOutcomes == {"ok", "ResourcesUnavailableError"}

ConcInit ==
    /\ clusters \in ConcTables
    /\ sinceSet = [n \in ClusterNames |-> 0]
    /\ inflight = NoInflight
    /\ firstLaunched = [n \in ClusterNames |-> None]
    /\ last = [op |-> "init", name |-> "", caller_is_owner |-> TRUE,
               err |-> "ok", args |-> NoArgs, pre |-> [n \in {} |-> n],
               ret |-> None, provisioned |-> FALSE]
    /\ search = NoSearch
    /\ spot_jobs = NoSpotJobs
    /\ job_last = NoJobStep
    /\ \E c1 \in ConcCalls, c2 \in ConcCalls :
          procs = [table |-> clusters, call |-> [p \in ProcIds |->
                                                  IF p = 1 THEN c1 ELSE c2]]
    /\ CloudAtRest

\* A process reads the record and makes the checks of its call.
proc_read(p) ==
    /\ procs.call[p].pc = "call"
    /\ procs.call[p].op # "autostop_event"
    /\ procs' = [procs EXCEPT !.call[p] = ReadCall(clusters, @)]
    /\ UNCHANGED <<lifecycleVars, searchVars, jobVars, cloudVars>>

\* A process that starts a cluster enters backend.provision.
proc_mark(p) ==
    /\ procs.call[p].pc = "read"
    /\ procs.call[p].op = "start"
    /\ clusters' = provision_mark_init(clusters, procs.call[p].name,
                                       TheValue(procs.call[p].seen))
    /\ procs' = [procs EXCEPT !.call[p] = [@ EXCEPT !.pc = "provisioning"]]
    /\ UNCHANGED <<sinceSet, firstLaunched, last, inflight, searchVars, jobVars, cloudVars>>

\* A process has the backend act on the handle it read.
proc_act(p, outcome) ==
    /\ procs.call[p].pc = IF procs.call[p].op = "start"
                          THEN "provisioning" ELSE "read"
    /\ (procs.call[p].op # "start") => outcome = "ok"
    /\ clusters' = ActCall(clusters, procs.call[p], outcome)
    /\ procs' = [procs EXCEPT !.call[p] = ActedCall(@, outcome)]
    /\ UNCHANGED <<sinceSet, firstLaunched, last, inflight, searchVars, jobVars, cloudVars>>

\* A process that has provisioned has the backend set the autostop.
proc_set_autostop(p) ==
    /\ procs.call[p].pc = "provisioned"
    /\ clusters' = SetAutostopCall(clusters, procs.call[p])
    /\ procs' = [procs EXCEPT !.call[p] = [@ EXCEPT !.pc = "done"]]
    /\ UNCHANGED <<sinceSet, firstLaunched, last, inflight, searchVars, jobVars, cloudVars>>

\* The idle monitor of a cluster triggers.
proc_monitor(p) ==
    /\ procs.call[p].pc = "call"
    /\ procs.call[p].op = "autostop_event"
    /\ clusters' = MonitorCall(clusters, procs.call[p])
    /\ procs' = [procs EXCEPT !.call[p] = [@ EXCEPT !.pc = "done"]]
    /\ UNCHANGED <<sinceSet, firstLaunched, last, inflight, searchVars, jobVars, cloudVars>>

ConcNext ==
    \/ \E p \in ProcIds : proc_read(p)
    \/ \E p \in ProcIds : proc_mark(p)
    \/ \E p \in ProcIds, out \in ConcOutcomes : proc_act(p, out)
    \/ \E p \in ProcIds : proc_set_autostop(p)
    \/ \E p \in ProcIds : proc_monitor(p)

ConcSpec == ConcInit /\ [][ConcNext]_vars

-----------------------------------------------------------------------------
\* Properties of concurrent calls.

\* The tables a call can leave when it runs alone on a table, from its read
\* to its end.
AloneOn(cs, c) ==
    IF c.op = "autostop_event" THEN {MonitorCall(cs, c)}
    ELSE LET r == ReadCall(cs, c) IN
         IF r.pc = "done" THEN {cs}
         ELSE LET marked == IF c.op = "start"
                            THEN provision_mark_init(cs, r.name,
                                                     TheValue(r.seen))
                            ELSE cs IN
              { IF ActedCall(r, out).pc = "provisioned"
                THEN SetAutostopCall(ActCall(marked, r, out), r)
                ELSE ActCall(marked, r, out) :
                  out \in IF c.op = "start" THEN ConcOutcomes ELSE {"ok"} }

\* The tables the calls made on a name can leave when they run one after the
\* other, in either order, from the table the processes started with.
SequentialOn(name) ==
    LET c1 == ConcCall(procs.call[1].op, procs.call[1].name,
                       procs.call[1].force)
        c2 == ConcCall(procs.call[2].op, procs.call[2].name,
                       procs.call[2].force)
        on1 == c1.name = name
        on2 == c2.name = name
    IN
    IF on1 /\ on2
    THEN UNION { AloneOn(t, c2) : t \in AloneOn(procs.table, c1) }
         \cup UNION { AloneOn(t, c1) : t \in AloneOn(procs.table, c2) }
    ELSE IF on1 THEN AloneOn(procs.table, c1)
    ELSE IF on2 THEN AloneOn(procs.table, c2)
    ELSE {procs.table}

AllDone == \A p \in ProcIds : procs.call[p].pc = "done"

\* C20: when concurrent calls have ended, the record of every name is one
\* that the calls made on that name leave when they run one after the other
\* in some order.
C20_Serialized ==
    AllDone =>
        \A n \in ClusterNames :
            RecordOf(clusters, n) \in
                { RecordOf(t, n) : t \in SequentialOn(n) }

\* The part of C20 about different names: when the two calls are on
\* different names, the record of each name is one its own call leaves when
\* it runs alone.
C20_NamesIndependent ==
    (AllDone /\ procs.call[1].name # procs.call[2].name) =>
        \A n \in ClusterNames :
            RecordOf(clusters, n) \in
                { RecordOf(t, n) : t \in SequentialOn(n) }

-----------------------------------------------------------------------------
\* The idle monitor of one cluster as a background poller.  The store holds
\* the time of the last activity; every activity event writes the current
\* time to it (the last writer wins).  A poll is a snapshot of the store
\* followed by a decision on that snapshot; events of other processes may
\* come between the two.

NoSnapshot == [time |-> 0, last_active |-> 0, jobs |-> 0, autostop |-> -1, to_down |-> FALSE, event_at |-> 0]

\* The state of a cluster that has just come up at minute 0; event_at
\* (history) is the minute of the latest activity event, used (history) the
\* snapshot the monitor's trigger was based on.
MonitorStart(autostop_minutes, to_down) ==
    [pc |-> "sleep", status |-> "UP", now |-> 0, last_active |-> 0,
     jobs |-> 0, autostop |-> autostop_minutes, to_down |-> to_down,
     snap |-> NoSnapshot, event_at |-> 0, used |-> None, op |-> "init"]

MonitorInit ==
    /\ clusters = [n \in {} |-> n]
    /\ sinceSet = [n \in ClusterNames |-> 0]
    /\ inflight = NoInflight
    /\ firstLaunched = [n \in ClusterNames |-> None]
    /\ last = [op |-> "init", name |-> "", caller_is_owner |-> TRUE,
               err |-> "ok", args |-> NoArgs, pre |-> [n \in {} |-> n],
               ret |-> None, provisioned |-> FALSE]
    /\ search = NoSearch
    /\ spot_jobs = NoSpotJobs
    /\ job_last = NoJobStep
    /\ procs = NoProcs
    /\ aws = NoAwsCall
    /\ fetch = NoFetch
    /\ \E i \in IdleMinutes, d \in BOOLEAN : monitor = MonitorStart(i, d)

\* An activity event: the idle clock restarts, by a write of the current
\* time.
record_activity(m) == [m EXCEPT !.last_active = m.now, !.event_at = m.now]

\* A job is submitted (sky.launch() or sky.exec()).
monitor_submit ==
    /\ monitor.status = "UP"
    /\ monitor.jobs < MaxJobs
    /\ monitor' = [record_activity(monitor) EXCEPT !.jobs = @ + 1,
                                                   !.op = "submit"]
    /\ UNCHANGED <<lifecycleVars, searchVars, jobVars, procVars, aws, fetch>>

\* A pending/running job ends.
monitor_finish ==
    /\ monitor.jobs > 0
    /\ monitor' = [monitor EXCEPT !.jobs = @ - 1, !.op = "finish"]
    /\ UNCHANGED <<lifecycleVars, searchVars, jobVars, procVars, aws, fetch>>

\* The cluster has restarted.
monitor_restart ==
    /\ monitor.status = "STOPPED"
    /\ monitor' = [record_activity(monitor) EXCEPT !.status = "UP",
                                                   !.op = "restart"]
    /\ UNCHANGED <<lifecycleVars, searchVars, jobVars, procVars, aws, fetch>>

\* An autostop is set: the idle clock restarts when there is no active
\* setting; the last setting takes precedence.
monitor_autostop(idle_minutes, to_down) ==
    /\ monitor.status = "UP"
    /\ monitor' = [(IF idle_minutes >= 0 /\ monitor.autostop < 0
                    THEN record_activity(monitor) ELSE monitor)
                   EXCEPT !.autostop = idle_minutes, !.to_down = to_down,
                          !.op = "autostop"]
    /\ UNCHANGED <<lifecycleVars, searchVars, jobVars, procVars, aws, fetch>>

\* A minute passes.
monitor_minute ==
    /\ monitor.now < MaxClock
    /\ monitor' = [monitor EXCEPT !.now = @ + 1, !.op = "minute"]
    /\ UNCHANGED <<lifecycleVars, searchVars, jobVars, procVars, aws, fetch>>

\* The poller wakes and takes its snapshot of the store.
monitor_snapshot ==
    /\ monitor.status = "UP"
    /\ monitor.pc = "sleep"
    /\ monitor' = [monitor EXCEPT
                     !.pc = "decide",
                     !.snap = [time |-> monitor.now,
                               last_active |-> monitor.last_active,
                               jobs |-> monitor.jobs,
                               autostop |-> monitor.autostop,
                               to_down |-> monitor.to_down,
                               event_at |-> monitor.event_at],
                     !.op = "snapshot"]
    /\ UNCHANGED <<lifecycleVars, searchVars, jobVars, procVars, aws, fetch>>

\* As poller_write, writing the time of the snapshot.
poller_write_Stale(m) == [m EXCEPT !.last_active = m.snap.time]

\* The poller saw jobs in progress: the cluster is active now.
poller_write(m) == [m EXCEPT !.last_active = m.now]

\* The idle time the poller computes from its snapshot.
idle_minutes_of(snap) == snap.time - snap.last_active

\* The poller decides on its snapshot: with jobs in progress the cluster is
\* active; with an active setting and the idle time reached it stops the
\* cluster, or tears it down when to_down is set.
monitor_decide ==
    /\ monitor.pc = "decide"
    /\ LET snap == monitor.snap IN
       monitor' =
         IF monitor.status # "UP"
         THEN [monitor EXCEPT !.pc = "sleep", !.op = "skip"]
         ELSE IF snap.jobs > 0
         THEN [poller_write(monitor) EXCEPT !.pc = "sleep", !.op = "active"]
         ELSE IF snap.autostop >= 0 /\ idle_minutes_of(snap) >= snap.autostop
         THEN [monitor EXCEPT !.pc = "sleep",
                              !.status = IF snap.to_down THEN "NONE"
                                         ELSE "STOPPED",
                              !.jobs = 0,
                              !.used = Some(snap),
                              !.op = "trigger"]
         ELSE [monitor EXCEPT !.pc = "sleep", !.op = "wait"]
    /\ UNCHANGED <<lifecycleVars, searchVars, jobVars, procVars, aws, fetch>>

\* The cluster is stopped by a call of stop().
monitor_stopped ==
    /\ monitor.status = "UP"
    /\ monitor' = [monitor EXCEPT !.status = "STOPPED", !.jobs = 0,
                                  !.op = "stop"]
    /\ UNCHANGED <<lifecycleVars, searchVars, jobVars, procVars, aws, fetch>>

MonitorNext ==
    \/ monitor_submit
    \/ monitor_finish
    \/ monitor_restart
    \/ \E i \in IdleMinutes, d \in BOOLEAN : monitor_autostop(i, d)
    \/ monitor_minute
    \/ monitor_snapshot
    \/ monitor_decide
    \/ monitor_stopped

MonitorSpec == MonitorInit /\ [][MonitorNext]_vars

-----------------------------------------------------------------------------
\* Properties of the idle monitor.

\* C21: no reset of the idle clock is lost.  Every snapshot of the poller
\* shows a last activity that is not older than the latest activity event
\* recorded before it, and a stop or down triggered by the monitor is based
\* on a snapshot of which the same holds and whose idle time, counted from
\* that event, has reached the setting.
C21_NoLostReset ==
    /\ monitor.pc = "decide" =>
          monitor.snap.last_active >= monitor.snap.event_at
    /\ monitor.used # None =>
          LET snap == TheValue(monitor.used) IN
          /\ snap.last_active >= snap.event_at
          /\ snap.jobs = 0
          /\ snap.autostop >= 0
          /\ snap.time - snap.event_at >= snap.autostop

\* A job was submitted after the poller's previous snapshot and has ended;
\* the next snapshot shows the reset, and the monitor has triggered on it.
C21_Witness ==
    /\ monitor.op = "trigger"
    /\ monitor.used # None
    /\ TheValue(monitor.used).event_at > 0
    /\ TheValue(monitor.used).last_active = TheValue(monitor.used).event_at
    /\ TheValue(monitor.used).autostop > 0

-----------------------------------------------------------------------------
\* Properties of start() and its arguments.

\* The autostop arguments start() refuses: a setting or autodown for the
\* spot controller, and autodown without idle minutes for any cluster.
RefusedStartArgs ==
    \/ /\ last.name = SPOT_CONTROLLER_NAME
       /\ (last.args.idle_minutes # None \/ last.args.to_down)
    \/ /\ last.args.to_down
       /\ last.args.idle_minutes = None

\* C22: start() on the spot controller with idle_minutes_to_autostop set or
\* with down, whatever the controller's status, and start() of any cluster
\* with down and without idle_minutes_to_autostop, raise ValueError; nothing
\* is provisioned and no record changes.
C22_StartArgsRejected ==
    (last.op = "start" /\ last.caller_is_owner /\ RefusedStartArgs)
    => ( /\ last.err = "ValueError"
         /\ ~last.provisioned
         /\ Unchanged )

\* The autostop configuration of a record.
AutostopConfig(rec) == <<TheValue(rec).autostop, TheValue(rec).to_down>>

\* The setting a call of start() has to apply: the one passed, the default
\* for the spot controller.
HasSetting ==
    last.name = SPOT_CONTROLLER_NAME \/ last.args.idle_minutes # None

\* C30: in start(), the autostop setting is applied only after provisioning
\* has returned: backend.provision leaves the cluster's autostop
\* configuration as it was; when it raises the call is over and
\* backend.set_autostop is not reached; when it has returned the call goes on
\* to backend.set_autostop exactly when there is a setting to apply (with
\* idle_minutes_to_autostop None only for the spot controller), and that
\* step stores the setting passed, the default for the spot controller.
C30_AutostopAfterProvision ==
    /\ (last.op = "start_provision_mark" /\ Found)
       => AutostopConfig(After) = AutostopConfig(Before)
    /\ (last.op = "start" /\ last.provisioned)
       => /\ After # None
          /\ Found => AutostopConfig(After) = AutostopConfig(Before)
          /\ (last.err # "ok") => inflight.start = None
          /\ (last.err = "ok" /\ ~HasSetting) => inflight.start = None
          /\ (last.err = "ok" /\ HasSetting)
                => /\ inflight.start # None
                   /\ TheValue(inflight.start).pc = "provisioned"
    /\ (inflight.start # None /\ TheValue(inflight.start).pc = "provisioned")
       => start_idle_minutes(TheValue(inflight.start).name,
                             TheValue(inflight.start).idle_minutes) # None
    /\ (last.op = "start_set_autostop" /\ After # None)
       => AutostopConfig(After) =
             IF last.name = SPOT_CONTROLLER_NAME
             THEN <<SPOT_CONTROLLER_IDLE_MINUTES_TO_AUTOSTOP, FALSE>>
             ELSE <<TheValue(last.args.idle_minutes), last.args.to_down>>

\* A start with a new setting whose provisioning raised: the call is over
\* and the setting is the one found.
C30_Witness ==
    /\ last.op = "start"
    /\ last.provisioned
    /\ last.err \in {"ResourcesUnavailableError", "CredentialError", "KeyboardInterrupt"}
    /\ last.args.idle_minutes # None
    /\ Found
    /\ TheValue(last.args.idle_minutes) # TheValue(Before).autostop
    /\ AutostopConfig(After) = AutostopConfig(Before)
    /\ inflight.start = None

-----------------------------------------------------------------------------
\* sky/clouds/aws.py: the functions of the AWS cloud, called one at a time
\* with arguments drawn from bounded sets.  aws holds the call made last.

\* Volumes are taken up to this distance from each bracket boundary.
EgressNear == 2

\* As get_egress_cost, without the test for the top bracket.
get_egress_cost_NoTopBracket(num_gigabytes) ==
    LET cost1 == IF num_gigabytes >= 50 * 1024
                 THEN (num_gigabytes - 50 * 1024) * 70 ELSE 0
        g1 == IF num_gigabytes >= 50 * 1024
              THEN num_gigabytes - 50 * 1024 ELSE num_gigabytes
    IN  cost1 + (IF g1 > 1 THEN (g1 - 1) * 90 ELSE 0)

\* AWS.get_egress_cost, in thousandths of a dollar (the rates 0.05, 0.07,
\* 0.085 and 0.09 are 50, 70, 85 and 90), for a whole number of gigabytes.
\* After each bracket the code takes the bracket's threshold off
\* num_gigabytes.
get_egress_cost(num_gigabytes) ==
    IF num_gigabytes > 150 * 1024
    THEN 50 * num_gigabytes
    ELSE LET cost1 == IF num_gigabytes >= 50 * 1024
                      THEN (num_gigabytes - 50 * 1024) * 70 ELSE 0
             g1 == IF num_gigabytes >= 50 * 1024
                   THEN num_gigabytes - 50 * 1024 ELSE num_gigabytes
             cost2 == IF g1 >= 10 * 1024
                      THEN cost1 + (g1 - 10 * 1024) * 85 ELSE cost1
             g2 == IF g1 >= 10 * 1024 THEN g1 - 10 * 1024 ELSE g1
             cost3 == IF g2 > 1 THEN cost2 + (g2 - 1) * 90 ELSE cost2
         IN  cost3

\* The volumes asked about: the smallest ones, those around each bracket
\* boundary, and 200000.
EgressVolumes ==
    (0..EgressNear)
    \cup UNION { (b - EgressNear)..(b + EgressNear) :
                   b \in {10 * 1024, 50 * 1024, 150 * 1024} }
    \cup {200000}

\* The accelerator rows of the catalog, in catalog order.
AcceleratorRows ==
    << [InstanceType |-> "g4dn.xlarge", AcceleratorName |-> "T4", AcceleratorCount |-> 1],
       [InstanceType |-> "p3.16xlarge", AcceleratorName |-> "V100", AcceleratorCount |-> 8],
       [InstanceType |-> "p3.2xlarge", AcceleratorName |-> "V100", AcceleratorCount |-> 1],
       [InstanceType |-> "p3.8xlarge", AcceleratorName |-> "V100", AcceleratorCount |-> 4],
       [InstanceType |-> "p4d.24xlarge", AcceleratorName |-> "A100", AcceleratorCount |-> 8] >>

\* The accelerators a request may name; the catalog has no row of the last.
AcceleratorNames == {"T4", "V100", "A100", "tpu-v2-8"}

AcceleratorCounts == {1, 2, 4, 8, 16}

Distance(a, b) == IF a >= b THEN a - b ELSE b - a

\* The counts in order of their distance from the requested count, the
\* smaller count first of two at the same distance.
RECURSIVE NearestFirst(_, _)
NearestFirst(counts, acc_count) ==
    IF counts = {} THEN << >>
    ELSE LET c == CHOOSE c \in counts :
                    \A d \in counts :
                        \/ Distance(c, acc_count) < Distance(d, acc_count)
                        \/ /\ Distance(c, acc_count) = Distance(d, acc_count)
                           /\ c <= d
         IN  <<c>> \o NearestFirst(counts \ {c}, acc_count)

\* The instance types of the rows that match, in catalog order.
RECURSIVE MatchingInstanceTypes(_, _, _)
MatchingInstanceTypes(rows, acc, acc_count) ==
    IF rows = << >> THEN << >>
    ELSE (IF Head(rows).AcceleratorName = acc
             /\ Head(rows).AcceleratorCount = acc_count
          THEN <<Head(rows).InstanceType>> ELSE << >>)
         \o MatchingInstanceTypes(Tail(rows), acc, acc_count)

\* The accelerators whose rows are near misses of a request for acc: acc
\* itself when the catalog has it at some count, every accelerator of the
\* catalog otherwise.
NearMissNames(acc) ==
    IF \E k \in 1..Len(AcceleratorRows) :
          AcceleratorRows[k].AcceleratorName = acc
    THEN {acc}
    ELSE { AcceleratorRows[k].AcceleratorName : k \in 1..Len(AcceleratorRows) }

\* The (accelerator, count) pairs of the rows with one of the names and the
\* count, each once, in catalog order.
RECURSIVE PairsAtCount(_, _, _, _)
PairsAtCount(rows, names, count, seen) ==
    IF rows = << >> THEN << >>
    ELSE LET pair == <<Head(rows).AcceleratorName, Head(rows).AcceleratorCount>>
             new == /\ pair[1] \in names
                    /\ pair[2] = count
                    /\ pair \notin seen
         IN  (IF new THEN <<pair>> ELSE << >>)
             \o PairsAtCount(Tail(rows), names, count,
                             IF new THEN seen \cup {pair} ELSE seen)

\* The pairs at each of the counts, in the order of the counts.
RECURSIVE PairsAtCounts(_, _)
PairsAtCounts(names, counts) ==
    IF counts = << >> THEN << >>
    ELSE PairsAtCount(AcceleratorRows, names, Head(counts), {})
         \o PairsAtCounts(names, Tail(counts))

\* service_catalog.get_instance_type_for_accelerator: the instance types with
\* exactly the accelerator and count; when there is none, no instance list
\* and the near-miss (accelerator, count) suggestions, nearest count first:
\* a list that is not empty, the catalog having rows.
get_instance_type_for_accelerator(acc, acc_count) ==
    LET instance_list == MatchingInstanceTypes(AcceleratorRows, acc, acc_count)
        names == NearMissNames(acc)
        counts == { AcceleratorRows[k].AcceleratorCount :
                      k \in { j \in 1..Len(AcceleratorRows) :
                                AcceleratorRows[j].AcceleratorName \in names } }
        nearest == NearestFirst(counts, acc_count)
    IN
    IF instance_list # << >>
    THEN [instance_list |-> Some(instance_list), fuzzy_candidate_list |-> << >>]
    ELSE [instance_list |-> None,
          fuzzy_candidate_list |-> PairsAtCounts(names, nearest)]

\* AWS.get_default_instance_type
get_default_instance_type == "m6i.2xlarge"

\* A resource request: an instance type or None, an (accelerator, count)
\* pair or None.
ResourceRequest(instance_type, accelerators) ==
    [instance_type |-> instance_type, accelerators |-> accelerators]

\* _make of get_feasible_launchable_resources: a copy of the request for each
\* instance type, without accelerators.
make_resources(instance_list) ==
    [k \in 1..Len(instance_list) |->
        ResourceRequest(Some(instance_list[k]), None)]

\* As get_feasible_launchable_resources, with the default instance type when
\* the catalog has no match.
get_feasible_launchable_resources_Default(resources) ==
    IF resources.instance_type # None
    THEN <<<<[resources EXCEPT !.accelerators = None]>>, << >>>>
    ELSE LET found == get_instance_type_for_accelerator(
                          TheValue(resources.accelerators)[1],
                          TheValue(resources.accelerators)[2])
         IN  IF resources.accelerators = None \/ found.instance_list = None
             THEN <<make_resources(<<get_default_instance_type>>),
                    IF resources.accelerators = None THEN << >>
                    ELSE found.fuzzy_candidate_list>>
             ELSE <<make_resources(TheValue(found.instance_list)),
                    found.fuzzy_candidate_list>>

\* AWS.get_feasible_launchable_resources: (candidates, fuzzy candidates).
get_feasible_launchable_resources(resources) ==
    IF resources.instance_type # None
    THEN <<<<[resources EXCEPT !.accelerators = None]>>, << >>>>
    ELSE IF resources.accelerators = None
    THEN <<make_resources(<<get_default_instance_type>>), << >>>>
    ELSE LET found == get_instance_type_for_accelerator(
                          TheValue(resources.accelerators)[1],
                          TheValue(resources.accelerators)[2])
         IN  IF found.instance_list = None
             THEN <<<< >>, found.fuzzy_candidate_list>>
             ELSE <<make_resources(TheValue(found.instance_list)),
                    found.fuzzy_candidate_list>>

\* The requests made: with and without an instance type, with and without
\* an accelerator.
OptAccelerators ==
    {None} \cup { Some(<<a, c>>) : a \in AcceleratorNames, c \in AcceleratorCounts }

ResourceRequests ==
    { ResourceRequest(t, a) : t \in OptInstanceTypes, a \in OptAccelerators }

\* The names of the regions of regions().
RegionNames == { regions[i].name : i \in 1..Len(regions) }

\* The catalog tags; in the code, the image ids that start with 'skypilot:'.
ImageTags == {"skypilot:gpu-ubuntu-2004", "skypilot:k80-ubuntu-2004", "skypilot:custom"}

\* The image ids a request may give: a literal id or a tag.
ImageRefs == {"ami-0123"} \cup ImageTags

\* The key None of an image_id dictionary: the image for every region.
NoneKey == "None"

\* service_catalog.get_image_id_from_tag: the image of the tag in the region,
\* or None.  The table has the default image in three regions, the K80 image
\* in one, and a custom tag in one.
get_image_id_from_tag(tag, region_name) ==
    IF tag = "skypilot:gpu-ubuntu-2004"
         /\ region_name \in {"us-east-1", "us-east-2", "us-west-2"}
    THEN Some("ami-gpu-" \o region_name)
    ELSE IF tag = "skypilot:k80-ubuntu-2004" /\ region_name = "us-east-1"
    THEN Some("ami-k80-" \o region_name)
    ELSE IF tag = "skypilot:custom" /\ region_name = "us-west-1"
    THEN Some("ami-custom-" \o region_name)
    ELSE None

ImageInstanceTypes == {"m6i.2xlarge", "p3.2xlarge", "p2.xlarge"}

\* service_catalog.get_accelerators_from_instance_type: the accelerator of
\* the instance type, or None.
get_accelerators_from_instance_type(instance_type) ==
    IF instance_type = "p3.2xlarge" THEN Some("V100")
    ELSE IF instance_type = "p2.xlarge" THEN Some("K80")
    ELSE None

\* The result of a call that may raise: the exception or "ok", and the value.
Returned(value) == [err |-> "ok", value |-> value]

Raised(err) == [err |-> err, value |-> None]

\* AWS.get_default_ami: the default image of the region, the K80 image for a
\* K80 instance type.
get_default_ami(region_name, instance_type) ==
    LET acc == get_accelerators_from_instance_type(instance_type)
        image_id == IF acc = Some("K80")
                    THEN get_image_id_from_tag("skypilot:k80-ubuntu-2004",
                                               region_name)
                    ELSE get_image_id_from_tag("skypilot:gpu-ubuntu-2004",
                                               region_name)
    IN  IF image_id # None THEN Returned(image_id)
        ELSE Raised("ResourcesUnavailableError")

\* AWS._get_image_id: None without an image_id dictionary; else the entry
\* of the key None or of the region (asserted to be there), a tag being
\* looked up in the catalog.
get_image_id(image_id, region_name) ==
    IF image_id = None THEN Returned(None)
    ELSE LET dict == TheValue(image_id) IN
         IF NoneKey \notin DOMAIN dict /\ region_name \notin DOMAIN dict
         THEN Raised("AssertionError")
         ELSE LET ref == IF NoneKey \in DOMAIN dict THEN dict[NoneKey]
                         ELSE dict[region_name]
              IN  IF ref \in ImageTags
                  THEN IF get_image_id_from_tag(ref, region_name) = None
                       THEN Raised("ResourcesUnavailableError")
                       ELSE Returned(get_image_id_from_tag(ref, region_name))
                  ELSE Returned(Some(ref))

\* AWS.make_deploy_resources_variables, as far as the image goes: the image
\* of the request for the region, else the default image.
make_deploy_resources_variables(image_id, instance_type, region_name) ==
    LET r == get_image_id(image_id, region_name) IN
    IF r.err # "ok" THEN r
    ELSE IF r.value = None THEN get_default_ami(region_name, instance_type)
    ELSE r

\* The image_id dictionaries of the requests: none, one image for every
\* region, or an image for one region.
ImageIdDicts ==
    {None}
    \cup { Some([k \in {key} |-> ref]) :
             key \in {NoneKey} \cup RegionNames, ref \in ImageRefs }

\* What sts.get_caller_identity() can end with: the caller's identity, or
\* one of the exceptions get_current_user_identity tells apart.
IdentityOutcomes == {"ok", "NoCredentialsError", "ClientError", "TokenRetrievalError", "Exception"}

\* The environment check_credentials looks at.
CredentialEnvs ==
    [sdk_importable : BOOLEAN, credentials_file : BOOLEAN,
     cli_ok : BOOLEAN, identity : IdentityOutcomes]

\* AWS.get_current_user_identity: the user id, or CloudUserIdentityError
\* with a message for the failure.
get_current_user_identity(identity) ==
    IF identity = "ok" THEN Returned(Some("AROADBQP57FF2AEXAMPLE"))
    ELSE [err |-> "CloudUserIdentityError",
          value |-> Some(
            IF identity = "NoCredentialsError"
            THEN "AWS credentials are not set."
            ELSE IF identity = "ClientError"
            THEN "Failed to access AWS services with credentials."
            ELSE IF identity = "TokenRetrievalError"
            THEN "AWS access token is expired."
            ELSE "Failed to get AWS user.")]

\* AWS.check_credentials: (ok, reason), or the exception it raises.
check_credentials(env) ==
    IF ~env.sdk_importable THEN Raised("ImportError")
    ELSE IF ~env.credentials_file
    THEN Returned(<<FALSE, Some("~/.aws/credentials does not exist.")>>)
    ELSE IF ~env.cli_ok
    THEN Returned(<<FALSE, Some("AWS CLI is not installed properly.")>>)
    ELSE LET id == get_current_user_identity(env.identity) IN
         IF id.err = "CloudUserIdentityError"
         THEN Returned(<<FALSE, id.value>>)
         ELSE Returned(<<TRUE, None>>)

AwsInit ==
    /\ clusters = [n \in {} |-> n]
    /\ sinceSet = [n \in ClusterNames |-> 0]
    /\ inflight = NoInflight
    /\ firstLaunched = [n \in ClusterNames |-> None]
    /\ last = [op |-> "init", name |-> "", caller_is_owner |-> TRUE,
               err |-> "ok", args |-> NoArgs, pre |-> [n \in {} |-> n],
               ret |-> None, provisioned |-> FALSE]
    /\ search = NoSearch
    /\ spot_jobs = NoSpotJobs
    /\ job_last = NoJobStep
    /\ procs = NoProcs
    /\ monitor = NoMonitor
    /\ fetch = NoFetch
    /\ aws = NoAwsCall

\* get_egress_cost is asked about two volumes.
egress_cost(g1, g2) ==
    /\ aws' = [fn |-> "get_egress_cost", args |-> <<g1, g2>>,
               ret |-> <<get_egress_cost(g1), get_egress_cost(g2)>>]
    /\ UNCHANGED <<lifecycleVars, searchVars, jobVars, procVars, monitor, fetch>>

\* get_feasible_launchable_resources is called with a request.
feasible_resources(resources) ==
    /\ aws' = [fn |-> "get_feasible_launchable_resources",
               args |-> <<resources>>,
               ret |-> get_feasible_launchable_resources(resources)]
    /\ UNCHANGED <<lifecycleVars, searchVars, jobVars, procVars, monitor, fetch>>

\* region_zones_provision_loop is run to its end.
provision_loop(instance_type, use_spot) ==
    /\ aws' = [fn |-> "region_zones_provision_loop",
               args |-> <<instance_type, use_spot>>,
               ret |-> region_zones_provision_loop(instance_type, use_spot)]
    /\ UNCHANGED <<lifecycleVars, searchVars, jobVars, procVars, monitor, fetch>>

\* make_deploy_resources_variables is called for a region that is tried.
deploy_variables(image_id, instance_type, region_name) ==
    /\ aws' = [fn |-> "make_deploy_resources_variables",
               args |-> <<image_id, instance_type, region_name>>,
               ret |-> make_deploy_resources_variables(image_id, instance_type,
                                                       region_name)]
    /\ UNCHANGED <<lifecycleVars, searchVars, jobVars, procVars, monitor, fetch>>

\* check_credentials is called in an environment.
credentials_check(env) ==
    /\ aws' = [fn |-> "check_credentials", args |-> <<env>>,
               ret |-> check_credentials(env)]
    /\ UNCHANGED <<lifecycleVars, searchVars, jobVars, procVars, monitor, fetch>>

AwsNext ==
    \/ \E env \in CredentialEnvs : credentials_check(env)
    \/ \E i \in ImageIdDicts, t \in ImageInstanceTypes, r \in RegionNames :
          deploy_variables(i, t, r)
    \/ \E t \in OptInstanceTypes, s \in BOOLEAN : provision_loop(t, s)
    \/ \E g1 \in EgressVolumes, g2 \in EgressVolumes : egress_cost(g1, g2)
    \/ \E r \in ResourceRequests : feasible_resources(r)

AwsSpec == AwsInit /\ [][AwsNext]_vars

-----------------------------------------------------------------------------
\* Properties of the functions of sky/clouds/aws.py.

\* C23: get_egress_cost is monotonic non-decreasing: of two volumes, the
\* larger one never costs less.
C23_EgressMonotonic ==
    (aws.fn = "get_egress_cost" /\ aws.args[1] <= aws.args[2])
    => aws.ret[1] <= aws.ret[2]

\* C24: get_egress_cost is 0 for 0 and for 1 gigabyte, and 0.05 a gigabyte
\* for every volume above 150 * 1024 (10000.0 for 200000).
C24_EgressValues ==
    aws.fn = "get_egress_cost" =>
        \A k \in 1..2 :
            /\ aws.args[k] \in {0, 1} => aws.ret[k] = 0
            /\ aws.args[k] > 150 * 1024 => aws.ret[k] = 50 * aws.args[k]
            /\ aws.args[k] = 200000 => aws.ret[k] = 10000 * 1000

\* 1 gigabyte and 200000 gigabytes have been asked about.
C24_Witness ==
    /\ aws.fn = "get_egress_cost"
    /\ aws.args = <<1, 200000>>
    /\ aws.ret = <<0, 10000 * 1000>>

\* The request of the last call names an accelerator and a count, no instance
\* type, and the catalog has no instance type with exactly that count.
NoExactMatch ==
    /\ aws.fn = "get_feasible_launchable_resources"
    /\ aws.args[1].instance_type = None
    /\ aws.args[1].accelerators # None
    /\ ~ \E k \in 1..Len(AcceleratorRows) :
            /\ AcceleratorRows[k].AcceleratorName = TheValue(aws.args[1].accelerators)[1]
            /\ AcceleratorRows[k].AcceleratorCount = TheValue(aws.args[1].accelerators)[2]

\* The suggestions are in order of ascending distance from the count.
AscendingDistance(fuzzy, acc_count) ==
    \A i \in 1..Len(fuzzy), j \in 1..Len(fuzzy) :
        i < j => Distance(fuzzy[i][2], acc_count) <= Distance(fuzzy[j][2], acc_count)

\* C25: a request for an accelerator and a count without an exact match gets
\* no candidate and a non-empty list of suggestions, in order of ascending
\* distance from the requested count: the list the catalog has answered
\* with, passed on as it is.
C25_FuzzyNonEmpty ==
    NoExactMatch =>
        LET acc == TheValue(aws.args[1].accelerators)[1]
            acc_count == TheValue(aws.args[1].accelerators)[2]
        IN
        /\ aws.ret[1] = << >>
        /\ aws.ret[2] # << >>
        /\ AscendingDistance(aws.ret[2], acc_count)
        /\ aws.ret[2] =
              get_instance_type_for_accelerator(acc, acc_count).fuzzy_candidate_list

\* V100:2 was requested: no candidate, and the suggestions V100:1, V100:4,
\* V100:8.
C25_Witness ==
    /\ NoExactMatch
    /\ aws.args[1].accelerators = Some(<<"V100", 2>>)
    /\ aws.ret = << << >>, << <<"V100", 1>>, <<"V100", 4>>, <<"V100", 8>> >> >>

\* The list region_zones_provision_loop takes its regions from: the static
\* list of regions() without an instance type, the catalog's list for the
\* instance type and spot flag otherwise.
SourceRegions ==
    IF aws.args[1] = None THEN regions
    ELSE get_region_zones_for_instance_type(TheValue(aws.args[1]), aws.args[2])

\* C26: region_zones_provision_loop yields the regions of its source list,
\* each once and in the list's order, each with all zones of the region as
\* one batch.
C26_ProvisionLoopOrder ==
    aws.fn = "region_zones_provision_loop" =>
        /\ Len(aws.ret) = Len(SourceRegions)
        /\ \A i \in 1..Len(aws.ret) :
              /\ aws.ret[i][1] = SourceRegions[i]
              /\ aws.ret[i][2] = SourceRegions[i].zones

\* The loop has run without an instance type and has yielded the four
\* regions of regions(), us-west-1 first with its two zones.
C26_Witness ==
    /\ aws.fn = "region_zones_provision_loop"
    /\ aws.args[1] = None
    /\ Len(aws.ret) = 4
    /\ aws.ret[1][1].name = "us-west-1"
    /\ aws.ret[1][2] = <<"us-west-1a", "us-west-1b">>
    /\ aws.ret[4][1].name = "us-east-1"

\* The image the request names for the region tried, if any.
RequestedImage ==
    LET dict == TheValue(aws.args[1]) IN
    IF NoneKey \in DOMAIN dict THEN Some(dict[NoneKey])
    ELSE IF aws.args[3] \in DOMAIN dict THEN Some(dict[aws.args[3]])
    ELSE None

\* Image resolution finds no usable image for the region tried: the
\* request's dictionary has no entry for the region, its tag has no entry
\* there, or there is no default image there.
NoUsableImage ==
    /\ aws.fn = "make_deploy_resources_variables"
    /\ IF aws.args[1] = None
       THEN get_image_id_from_tag(
                IF get_accelerators_from_instance_type(aws.args[2]) = Some("K80")
                THEN "skypilot:k80-ubuntu-2004"
                ELSE "skypilot:gpu-ubuntu-2004", aws.args[3]) = None
       ELSE \/ RequestedImage = None
            \/ /\ RequestedImage # None
               /\ TheValue(RequestedImage) \in ImageTags
               /\ get_image_id_from_tag(TheValue(RequestedImage), aws.args[3]) = None

\* C27: when image resolution finds no usable image for the region tried,
\* make_deploy_resources_variables fails with ResourcesUnavailableError, the
\* error that makes the failover loop go on to the next region.
C27_NoImageRetryable ==
    NoUsableImage => aws.ret.err = ResourcesUnavailable

\* Every prerequisite of check_credentials is met.
AllChecksPass(env) ==
    /\ env.sdk_importable
    /\ env.credentials_file
    /\ env.cli_ok
    /\ env.identity = "ok"

\* C28: check_credentials never raises: when a prerequisite fails it returns
\* (False, reason) with a non-empty reason, and it returns (True, None) only
\* when every check passes.
C28_CredentialsNeverRaise ==
    aws.fn = "check_credentials" =>
        /\ aws.ret.err = "ok"
        /\ IF AllChecksPass(aws.args[1])
           THEN aws.ret.value = <<TRUE, None>>
           ELSE /\ aws.ret.value[1] = FALSE
                /\ aws.ret.value[2] # None
                /\ TheValue(aws.ret.value[2]) # ""

-----------------------------------------------------------------------------
\* sky/clouds/service_catalog/data_fetchers/fetch_aws.py: the fetch of the
\* instance table.  One task per region runs in parallel; the tasks end in
\* any order, each with the rows of its region or with a failure.

\* The regions enabled for the account (user_regions), in the order of
\* their names.
FetchRegions == <<"eu-west-1", "us-east-1", "us-west-2">>

\* The instance types of the rows, in the order of their names.
FetchInstanceTypes == <<"m6i.2xlarge", "p3.2xlarge">>

IndexOf(seq, x) == CHOOSE i \in 1..Len(seq) : seq[i] = x

FetchRow(instance_type, region, zone) ==
    [InstanceType |-> instance_type, Region |-> region, AvailabilityZone |-> zone]

\* _get_instance_types_df of a region whose fetch succeeds: the rows of the
\* region, instance types by availability zones, as the API lists them.
instance_types_df(region) ==
    IF region = "us-east-1"
    THEN << FetchRow("p3.2xlarge", region, "use1-az1"),
            FetchRow("m6i.2xlarge", region, "use1-az1"),
            FetchRow("p3.2xlarge", region, "use1-az2"),
            FetchRow("m6i.2xlarge", region, "use1-az2") >>
    ELSE IF region = "us-west-2"
    THEN << FetchRow("m6i.2xlarge", region, "usw2-az1"),
            FetchRow("p3.2xlarge", region, "usw2-az1") >>
    ELSE << FetchRow("m6i.2xlarge", region, "euw1-az1") >>

\* The order of sort_values(['InstanceType', 'Region']).
RowBefore(a, b) ==
    \/ IndexOf(FetchInstanceTypes, a.InstanceType) < IndexOf(FetchInstanceTypes, b.InstanceType)
    \/ /\ a.InstanceType = b.InstanceType
       /\ IndexOf(FetchRegions, a.Region) < IndexOf(FetchRegions, b.Region)

\* A row put into a sorted table, after the rows that are not after it.
RECURSIVE InsertRow(_, _)
InsertRow(table, row) ==
    IF table = << >> THEN <<row>>
    ELSE IF RowBefore(row, Head(table)) THEN <<row>> \o table
    ELSE <<Head(table)>> \o InsertRow(Tail(table), row)

RECURSIVE sort_values(_)
sort_values(table) ==
    IF table = << >> THEN << >>
    ELSE InsertRow(sort_values(SubSeq(table, 1, Len(table) - 1)),
                   table[Len(table)])

\* pd.concat of the tables of the regions that succeeded, in the order the
\* regions are given.
RECURSIVE concat(_, _)
concat(order, task) ==
    IF order = << >> THEN << >>
    ELSE (IF task[Head(order)] = "ok" THEN instance_types_df(Head(order))
          ELSE << >>) \o concat(Tail(order), task)

\* get_all_regions_instance_types_df: ray.get returns the results of the
\* tasks in the order the tasks were made; a region that failed is printed
\* and left out; the rest is concatenated (an error when there is nothing
\* to concatenate) and sorted.
get_all_regions_instance_types_df(order, task) ==
    LET failed == { order[i] : i \in { j \in 1..Len(order) : task[order[j]] = "failed" } }
    IN  IF failed = { order[i] : i \in 1..Len(order) }
        THEN [err |-> "ValueError", failed |-> failed, df |-> << >>]
        ELSE [err |-> "ok", failed |-> failed,
              df |-> sort_values(concat(order, task))]

\* _check_regions_integrity: the regions of the table must be the regions
\* requested.
check_regions_integrity(df, user_regions) ==
    IF { df[i].Region : i \in 1..Len(df) } # user_regions
    THEN "RuntimeError" ELSE "ok"

\* The orders in which a set of regions can be gone through.
Orders ==
    { o \in [1..Len(FetchRegions) -> { FetchRegions[i] : i \in 1..Len(FetchRegions) }] :
        \A i, j \in 1..Len(FetchRegions) : i # j => o[i] # o[j] }

FetchInit ==
    /\ clusters = [n \in {} |-> n]
    /\ sinceSet = [n \in ClusterNames |-> 0]
    /\ inflight = NoInflight
    /\ firstLaunched = [n \in ClusterNames |-> None]
    /\ last = [op |-> "init", name |-> "", caller_is_owner |-> TRUE,
               err |-> "ok", args |-> NoArgs, pre |-> [n \in {} |-> n],
               ret |-> None, provisioned |-> FALSE]
    /\ search = NoSearch
    /\ spot_jobs = NoSpotJobs
    /\ job_last = NoJobStep
    /\ procs = NoProcs
    /\ monitor = NoMonitor
    /\ aws = NoAwsCall
    /\ \E o \in Orders :
          fetch = [pc |-> "fetching", order |-> o,
                   task |-> [r \in { o[i] : i \in 1..Len(o) } |-> "pending"],
                   finished |-> << >>, failed |-> {}, df |-> << >>,
                   err |-> "ok", saved |-> FALSE]

\* The task of a region ends with the rows of the region.
task_succeed(region) ==
    /\ fetch.pc = "fetching"
    /\ fetch.task[region] = "pending"
    /\ fetch' = [fetch EXCEPT !.task[region] = "ok",
                              !.finished = Append(@, region)]
    /\ UNCHANGED <<lifecycleVars, searchVars, jobVars, procVars, monitor, aws>>

\* The task of a region fails: it prints the failure and returns the
\* region's name.
task_fail(region) ==
    /\ fetch.pc = "fetching"
    /\ fetch.task[region] = "pending"
    /\ fetch' = [fetch EXCEPT !.task[region] = "failed",
                              !.finished = Append(@, region)]
    /\ UNCHANGED <<lifecycleVars, searchVars, jobVars, procVars, monitor, aws>>

\* All tasks have ended: the script builds the instance table, checks its
\* regions and saves it.
fetch_collect ==
    /\ fetch.pc = "fetching"
    /\ \A r \in DOMAIN fetch.task : fetch.task[r] # "pending"
    /\ LET got == get_all_regions_instance_types_df(fetch.order, fetch.task)
           chk == IF got.err # "ok" THEN got.err
                  ELSE check_regions_integrity(got.df, DOMAIN fetch.task)
       IN  fetch' = [fetch EXCEPT !.pc = "done", !.failed = got.failed,
                                  !.df = got.df, !.err = chk,
                                  !.saved = (chk = "ok")]
    /\ UNCHANGED <<lifecycleVars, searchVars, jobVars, procVars, monitor, aws>>

FetchNext ==
    \/ \E r \in DOMAIN fetch.task : task_succeed(r)
    \/ \E r \in DOMAIN fetch.task : task_fail(r)
    \/ fetch_collect

FetchSpec == FetchInit /\ [][FetchNext]_vars

-----------------------------------------------------------------------------
\* Properties of the catalog fetch.

Succeeded == { r \in DOMAIN fetch.task : fetch.task[r] = "ok" }

Failed == { r \in DOMAIN fetch.task : fetch.task[r] = "failed" }

\* The failed regions are left out and reported, and the table has the rows
\* of the regions that succeeded, each once, sorted by (InstanceType,
\* Region).
SkippedAndSorted ==
    /\ fetch.failed = Failed
    /\ { fetch.df[i] : i \in 1..Len(fetch.df) } =
          UNION { { instance_types_df(r)[i] : i \in 1..Len(instance_types_df(r)) } :
                    r \in Succeeded }
    /\ \A i, j \in 1..Len(fetch.df) : i # j => fetch.df[i] # fetch.df[j]
    /\ \A i, j \in 1..Len(fetch.df) :
          i < j => ~RowBefore(fetch.df[j], fetch.df[i])

\* C29 as stated: when the fetch of a region fails, the run completes, with
\* the failed region skipped and reported and the instance table holding the
\* sorted rows of the regions that succeeded.
C29_FailedRegionSkipped ==
    (fetch.pc = "done" /\ Failed # {} /\ Succeeded # {})
    => (fetch.err = "ok" /\ SkippedAndSorted)

\* The part of C29 about the instance table: whenever the fetch of some
\* region succeeds, the table is built from the regions that succeeded, with
\* the failed regions skipped and reported and the rows sorted, whatever the
\* order in which the tasks ended; the run ends with RuntimeError at the
\* check of the fetched regions exactly when a region failed.
C29_TableOfSucceededRegions ==
    fetch.pc = "done" =>
        /\ Succeeded # {} => SkippedAndSorted
        /\ (Failed # {} /\ Succeeded # {})
              => (fetch.err = "RuntimeError" /\ ~fetch.saved)
        /\ Failed = {} => (fetch.err = "ok" /\ fetch.saved)

====
